---- MODULE Spec2Model ----
(***************************************************************************)
(* A model of the check execution and reporting core of ddct:             *)
(*   - the Report aggregate of src/src/common.py (add_success,            *)
(*     add_warning, add_failure, code_list, gen_json, generate),          *)
(*   - the check wrapper (check / _inner_check_func, sf, ff, wf),         *)
(*   - run_checks of src/src/checkers.py (one thread per selected check,  *)
(*     then a join of every thread),                                      *)
(*   - read_report and parse_mconf of src/src/common.py,                  *)
(*   - the fix ledger (idempotent, load_run_fixes, save_run_fixes) and    *)
(*     add_host_state of src/src/common.py,                               *)
(*   - the connection checks and check_iscsi of src/src/checkers.py.      *)
(*                                                                         *)
(* The specifications share the variables:                                 *)
(*   Spec        a caller makes a bounded sequence of calls on the Report, *)
(*               each call running to its end before the next one starts;  *)
(*   SpecRun     run_checks runs a registry of checks on threads; every    *)
(*               access of a thread to the shared Report is a step of its  *)
(*               own, so the threads interleave between any two accesses;  *)
(*   SpecRender  the calls of Spec, the renderings of the Report and       *)
(*               read_report on the table written;                         *)
(*   SpecRead    read_report on a report file of any content;              *)
(*   SpecParse   parse_mconf on a text of any content;                     *)
(*   SpecParser  parse_mconf on such a text, one loop iteration a step;    *)
(*   SpecFix     fix actions invoked, the ledger saved and loaded, over    *)
(*               several lifetimes of the process;                         *)
(*   SpecHost    a sequence of add_host_state calls on the Report;         *)
(*   SpecArp     the three connection checks polling on their threads;     *)
(*   SpecIscsi   check_iscsi on a host with an iscsid.conf of any content; *)
(*   SpecPlugins run_checks and print_tags called with plugins, one call   *)
(*               after the other in one process.                           *)
(***************************************************************************)
EXTENDS Naturals, Sequences, FiniteSets, TLC

VARIABLES
    report,      \* common.report: the process-wide Report instance
    WARNINGS,    \* common.WARNINGS: the global "warnings enabled" switch
    calls,       \* history: the calls made so far on the Report, with outcome
    check_list,  \* checkers.check_list: the registry, a sequence of checks
    sel,         \* run_checks' arguments tags / not_tags of the current run
    threads,     \* run_checks' local `threads`: one record per started thread
    mainpc,      \* where run_checks is: "idle", "start", "join", "returned"
    joined,      \* number of threads run_checks has joined so far
    report_file, \* the report file gen_report writes and read_report reads
    in_report,   \* read_report's outcome: the Report it built, or its error
    mconf,       \* the text handed to parse_mconf, as its lines
    tree,        \* parse_mconf's result
    ledger,      \* the fix ledger: common.fixes_run, FIXES_FILE, the fixes run
    parser,      \* parse_mconf in progress: the iterator and the open calls
    arp,         \* the ARP polls of mgmt_check, vip1_check and vip2_check
    iscsi        \* check_iscsi's scan of iscsid.conf

vars == <<report, WARNINGS, calls, check_list, sel, threads, mainpc, joined,
          report_file, in_report, mconf, tree, ledger, parser, arp, iscsi>>

\* The variables of the fix ledger and of the single checks and parsers
auxVars == <<ledger, parser, arp, iscsi>>

\* The variables of the report file and of the config parser, and auxVars
ioVars == <<report_file, in_report, mconf, tree, auxVars>>

runVars == <<check_list, sel, threads, mainpc, joined>>

-----------------------------------------------------------------------------
(* Bounds of the model *)

\* Longest sequence of ledger operations explored by SpecFix.
MaxIscsiLines == 3

MaxLoads == 2

MaxEvents == 5

\* Largest number of ledger lifetimes (processes) explored by SpecFix.
MaxLifetimes == 2

\* Longest text handed to parse_mconf by SpecParse, in lines.
MaxConfLines == 4

\* Longest report file handed to read_report by SpecRead, in lines.
MaxLines == 3

\* Longest sequence of calls on the Report explored by Spec.
MaxCalls == 3

\* Largest registry (and so largest number of threads) explored by SpecRun.
MaxChecks == 2

-----------------------------------------------------------------------------
(* Values *)

\* Python's None
None == "None"

\* Check names
Names == {"A", "B"}

\* The (reason, uid, fix) triples a failure or warning is recorded with: the
\* same code with two reasons, with and without a fix, and a second code.
Sites ==
    { [reason |-> "r1", uid |-> "c1", fix |-> "f1"],
      [reason |-> "r2", uid |-> "c1", fix |-> None],
      [reason |-> "r2", uid |-> "c2", fix |-> "f2"] }

\* The tag collections passed to a record call (a tuple from the decorator,
\* a list from read_report); the second one holds the check name "A".
TagArgs == { <<"t1">>, <<"A", "t2">> }

Range(s) == { s[i] : i \in DOMAIN s }

\* Number of occurrences of x in the sequence s
Count(x, s) == Cardinality({ i \in DOMAIN s : s[i] = x })

\* d[k] = v on a dict (a function with a finite domain)
DictSet(d, k, v) == (k :> v) @@ d

EmptyDict == <<>>

-----------------------------------------------------------------------------
(* Report: construction and formatting (common.py 153-173) *)

Report ==
    [ hostname      |-> None,
      success       |-> <<>>,
      warning       |-> EmptyDict,
      warning_id    |-> EmptyDict,
      warning_by_id |-> EmptyDict,
      fix_by_id     |-> EmptyDict,
      failure       |-> EmptyDict,
      failure_id    |-> EmptyDict,
      failure_by_id |-> EmptyDict,
      tags          |-> EmptyDict,
      host_state    |-> EmptyDict ]

\* "{}: {}".format(FIX, fix).format(uid) with FIX = "FIX {}"
format_fix(fix, uid) == "FIX " \o uid \o ": " \o fix

\* "{}: {}".format(ISSUE, issue).format(uid) with ISSUE = "ISSUE {}"
format_issue(issue, uid) == "ISSUE " \o uid \o ": " \o issue

-----------------------------------------------------------------------------
(* The single statements of add_success / add_warning / add_failure, each   *)
(* one access to the Report.  A call is their composition; a thread of      *)
(* SpecRun executes them one step at a time.                                *)

\* Variant of success_append: the list is replaced instead of appended to.
success_append_overwrite(r, name) == [r EXCEPT !.success = <<name>>]

\* self.success.append(name)
success_append(r, name) == [r EXCEPT !.success = Append(@, name)]

\* self.failure[name] = []
failure_init(r, name) == [r EXCEPT !.failure = DictSet(@, name, <<>>)]

\* self.failure_id[name] = []
failure_id_init(r, name) == [r EXCEPT !.failure_id = DictSet(@, name, <<>>)]

\* self.failure[name].append(reason)
failure_append(r, name, reason) ==
    [r EXCEPT !.failure = DictSet(@, name, Append(@[name], reason))]

\* self.failure_id[name].append(uid)
failure_id_append(r, name, uid) ==
    [r EXCEPT !.failure_id = DictSet(@, name, Append(@[name], uid))]

\* self.failure_by_id[uid] = (name, reason)
failure_by_id_set(r, uid, name, reason) ==
    [r EXCEPT !.failure_by_id = DictSet(@, uid, <<name, reason>>)]

\* self.warning[name] = []
warning_init(r, name) == [r EXCEPT !.warning = DictSet(@, name, <<>>)]

\* self.warning_id[name] = []
warning_id_init(r, name) == [r EXCEPT !.warning_id = DictSet(@, name, <<>>)]

\* self.warning[name].append(reason)
warning_append(r, name, reason) ==
    [r EXCEPT !.warning = DictSet(@, name, Append(@[name], reason))]

\* self.warning_id[name].append(uid)
warning_id_append(r, name, uid) ==
    [r EXCEPT !.warning_id = DictSet(@, name, Append(@[name], uid))]

\* self.warning_by_id[uid] = (name, reason)
warning_by_id_set(r, uid, name, reason) ==
    [r EXCEPT !.warning_by_id = DictSet(@, uid, <<name, reason>>)]

\* self.fix_by_id[uid] = self.format_fix(fix, uid)
fix_by_id_set(r, uid, fix) ==
    [r EXCEPT !.fix_by_id = DictSet(@, uid, format_fix(fix, uid))]

\* self.tags[name] = set()
tags_reset(r, name) == [r EXCEPT !.tags = DictSet(@, name, {})]

\* self.tags[name].add(tag)
tags_add(r, name, tag) ==
    [r EXCEPT !.tags = DictSet(@, name, @[name] \cup {tag})]

-----------------------------------------------------------------------------
(* The outcome of a call: the Report it leaves and the error it raised.     *)

Ok(r) == [rep |-> r, err |-> None]

Raised(r, e) == [rep |-> r, err |-> e]

\* for tag in tags: self.tags[name].add(tag)     (from the i-th tag on)
\* self.tags[name] raises KeyError when the name has no entry.
RECURSIVE tags_loop(_, _, _, _)
tags_loop(r, name, tags, i) ==
    IF i > Len(tags) THEN Ok(r)
    ELSE IF name \notin DOMAIN r.tags THEN Raised(r, "KeyError")
    ELSE tags_loop(tags_add(r, name, tags[i]), name, tags, i + 1)

\* The tail shared by the three record operations (178-181, 194-197, 209-212):
\*     if name not in tags: self.tags[name] = set()
\*     for tag in tags: self.tags[name].add(tag)
\* `tags` is the argument, not self.tags.
record_tags(r, name, tags) ==
    tags_loop(IF name \notin Range(tags) THEN tags_reset(r, name) ELSE r,
              name, tags, 1)

\* Variant of success_guard: the test of self.failure is left out.
success_guard_no_failure_test(r, name) == name \notin DOMAIN r.warning

\* The guard of add_success (176)
success_guard(r, name) ==
    name \notin DOMAIN r.failure /\ name \notin DOMAIN r.warning

add_success(r, name, tags) ==
    IF success_guard(r, name)
    THEN record_tags(success_append(r, name), name, tags)
    ELSE Ok(r)

\* Variant of add_warning: the test of WARNINGS (185) is left out.
add_warning_ignores_flag(r, warnings, name, reason, uid, tags, fix) ==
    LET issue == format_issue(reason, uid)
        r1 == IF name \notin DOMAIN r.warning
              THEN warning_id_init(warning_init(r, name), name)
              ELSE r
        r2 == warning_append(r1, name, issue)
        r3 == warning_id_append(r2, name, uid)
        r4 == warning_by_id_set(r3, uid, name, issue)
        r5 == IF fix # None THEN fix_by_id_set(r4, uid, fix) ELSE r4
    IN  record_tags(r5, name, tags)

\* add_warning (183-197): everything is under `if WARNINGS:`
add_warning(r, warnings, name, reason, uid, tags, fix) ==
    LET issue == format_issue(reason, uid)
        r1 == IF name \notin DOMAIN r.warning
              THEN warning_id_init(warning_init(r, name), name)
              ELSE r
        r2 == warning_append(r1, name, issue)
        r3 == warning_id_append(r2, name, uid)
        r4 == warning_by_id_set(r3, uid, name, issue)
        r5 == IF fix # None THEN fix_by_id_set(r4, uid, fix) ELSE r4
    IN  IF warnings THEN record_tags(r5, name, tags) ELSE Ok(r)

add_failure(r, name, reason, uid, tags, fix) ==
    LET issue == format_issue(reason, uid)
        r1 == IF name \notin DOMAIN r.failure
              THEN failure_id_init(failure_init(r, name), name)
              ELSE r
        r2 == failure_append(r1, name, issue)
        r3 == failure_id_append(r2, name, uid)
        r4 == failure_by_id_set(r3, uid, name, issue)
        r5 == IF fix # None THEN fix_by_id_set(r4, uid, fix) ELSE r4
    IN  record_tags(r5, name, tags)

\* Variant of code_list: the warning codes are returned whatever WARNINGS is.
code_list_ignores_flag(r, warnings) ==
    LET w == DOMAIN r.warning_by_id
        f == DOMAIN r.failure_by_id
    IN  [c \in w \cup f |->
            (IF c \in w THEN 1 ELSE 0) + (IF c \in f THEN 1 ELSE 0)]

\* Variant of code_list: the failure codes are left out.
code_list_no_failures(r, warnings) ==
    [c \in (IF warnings THEN DOMAIN r.warning_by_id ELSE {}) |-> 1]

\* code_list (310-316): the warning codes when warnings are enabled, then the
\* failure codes.  The order of the result is the dicts' iteration order and
\* is not modelled: the result is the bag of its elements.
code_list(r, warnings) ==
    LET w == IF warnings THEN DOMAIN r.warning_by_id ELSE {}
        f == DOMAIN r.failure_by_id
    IN  [c \in w \cup f |->
            (IF c \in w THEN 1 ELSE 0) + (IF c \in f THEN 1 ELSE 0)]

\* socket.gethostname(): the name of the host the program runs on
gethostname == "host1"

\* Variant of stamp_hostname: the hostname is left as it is.
stamp_hostname_never(r) == r

\* if not self.hostname: self.hostname = socket.gethostname()   (222-223,
\* 301-302; 215-216 in add_host_state)
stamp_hostname(r) ==
    IF r.hostname = None THEN [r EXCEPT !.hostname = gethostname] ELSE r

\* gen_json (300-308): the Report it leaves and the dict it returns; the
\* tags' lists are kept as the sets they are built from.
gen_json(r) ==
    LET r1 == stamp_hostname(r)
    IN  [ rep |-> r1,
          out |-> [ host       |-> r1.hostname,
                    success    |-> r1.success,
                    warnings   |-> r1.warning_by_id,
                    failures   |-> r1.failure_by_id,
                    tags       |-> r1.tags,
                    host_state |-> r1.host_state ] ]

\* A str object held where the dict of the host state is expected: the
\* field is kept a function in either case, and the str is the function on
\* the one argument "__str__", which is no key of any dict of the model.
StrObject(s) == ("__str__" :> s)
IsStr(x) == DOMAIN x = {"__str__"}

\* add_host_state (214-219): the Report it leaves and the error it raised.
\* `"hostname" in self.host_state` is a key test on the dict and a substring
\* test on a str (the host's name does not contain "hostname");
\* self.host_state[key] = value raises TypeError on a str.
add_host_state(r, key, value) ==
    LET r1 == stamp_hostname(r)
        r2 == IF ~IsStr(r1.host_state) /\ "hostname" \in DOMAIN r1.host_state
              THEN [r1 EXCEPT !.host_state = StrObject(r1.hostname)]
              ELSE r1
    IN  IF IsStr(r2.host_state) THEN Raised(r2, "TypeError")
        ELSE Ok([r2 EXCEPT !.host_state = DictSet(@, key, value)])

-----------------------------------------------------------------------------
(* The rendered table (common.py 221-298) and its reader (539-565).          *)
(*                                                                           *)
(* A text is kept as the sequence of its lines.  A line of the report file   *)
(* is kept as what line.split("|") followed by strip() makes of it: the      *)
(* sequence of its pieces, a piece being the sequence of the words that      *)
(* whitespace separates in it (a sentence produced by generate() is one      *)
(* word: nothing reads inside it).  A line without a pipe has one piece.     *)

\* apply_color (98-110)
apply_color(value_for_coloring, color) ==
    LET suffix == "ESC[0m"
        prefix == CASE color = "red"    -> "ESC[31m"
                    [] color = "green"  -> "ESC[32m"
                    [] color = "yellow" -> "ESC[33m"
    IN  prefix \o value_for_coloring \o suffix

SUCCESS == apply_color("Success", "green")
FAILURE == apply_color("FAIL", "red")
WARNING == apply_color("WARN", "yellow")

\* The strings that get sorted, in Python's string order
StrOrder == <<"A", "B", "hostname", "k1", "k2", "t1", "t2">>

Rank(x) == CHOOSE i \in DOMAIN StrOrder : StrOrder[i] = x

\* Variant of sorted: the list is returned in the order it has.
sorted_keeps_order(s) == s

\* sorted() of a list of strings
RECURSIVE sorted(_)
sorted(s) ==
    IF s = <<>> THEN <<>>
    ELSE LET m == CHOOSE i \in DOMAIN s :
                    /\ \A j \in DOMAIN s : Rank(s[i]) <= Rank(s[j])
                    /\ \A j \in 1..(i - 1) : Rank(s[i]) < Rank(s[j])
         IN  <<s[m]>> \o sorted(SubSeq(s, 1, m - 1) \o SubSeq(s, m + 1, Len(s)))

\* sorted() of a set of strings, or of a dict's items (the keys decide)
RECURSIVE sorted_set(_)
sorted_set(S) ==
    IF S = {} THEN <<>>
    ELSE LET m == CHOOSE x \in S : \A y \in S : Rank(x) <= Rank(y)
         IN  <<m>> \o sorted_set(S \ {m})

\* _wraptxt (145-148).  Every text of the model is shorter than the fill
\* width (60) and has single spaces, and textwrap.fill returns such a text
\* as it is, whatever WRAPTXT says.
wraptxt(txt, fill) == txt

\* The entries of a by-code index for the codes of one name, each followed
\* by its fix when there is one (243-248, 257-262)
RECURSIVE reasons_of(_, _, _)
reasons_of(r, by_id, ids) ==
    IF ids = <<>> THEN <<>>
    ELSE LET id == ids[1]
             fix == IF id \in DOMAIN r.fix_by_id THEN <<r.fix_by_id[id]>>
                    ELSE <<>>
         IN  <<by_id[id][2]>> \o fix \o reasons_of(r, by_id, Tail(ids))

\* "\n".join of texts that each end with a newline (250-253): the lines of
\* the cell have an empty line between two texts
RECURSIVE join_newline_ended(_)
join_newline_ended(texts) ==
    IF Len(texts) <= 1 THEN texts
    ELSE <<texts[1], "">> \o join_newline_ended(Tail(texts))

\* The names of a row sequence must have a tags entry: self.tags[x] (238,
\* 254, 268) raises KeyError otherwise
tags_cell(r, name) == sorted_set(r.tags[name])

\* s (233-239): 5-tuples
success_rows(r) ==
    LET names == sorted(r.success)
    IN  [ i \in DOMAIN names |->
            <<(<<names[i]>>), <<SUCCESS>>, <<>>, <<>>, tags_cell(r, names[i])>> ]

\* w (241-254)
warning_rows(r) ==
    LET names == sorted_set(DOMAIN r.warning_id)
    IN  [ i \in DOMAIN names |->
            LET warnings == reasons_of(r, r.warning_by_id, r.warning_id[names[i]])
                wrapped == [ k \in DOMAIN warnings |-> wraptxt(warnings[k], 60) ]
            IN  <<(<<names[i]>>), <<WARNING>>, join_newline_ended(wrapped),
                  tags_cell(r, names[i])>> ]

\* f (255-268)
failure_rows(r) ==
    LET names == sorted_set(DOMAIN r.failure_id)
    IN  [ i \in DOMAIN names |->
            LET failures == reasons_of(r, r.failure_by_id, r.failure_id[names[i]])
                wrapped == [ k \in DOMAIN failures |-> wraptxt(failures[k], 60) ]
            IN  <<(<<names[i]>>), <<FAILURE>>, wrapped, tags_cell(r, names[i])>> ]

\* f + w + s (271)
table_rows(r) == failure_rows(r) \o warning_rows(r) \o success_rows(r)

Max(S) == CHOOSE x \in S : \A y \in S : y <= x
Min(S) == CHOOSE x \in S : \A y \in S : x <= y

\* One piece of a line: the words of the cell's k-th line
Piece(cell, k) == IF k <= Len(cell) /\ cell[k] # "" THEN <<cell[k]>> ELSE <<>>

\* The lines of one row of the grid: as many as its longest cell has
row_lines(row, ncols) ==
    LET cell(c) == IF c <= Len(row) THEN row[c] ELSE <<>>
        n == Max({1} \cup { Len(cell(c)) : c \in 1..ncols })
    IN  [ k \in 1..n |->
            <<(<<>>)>> \o [ c \in 1..ncols |-> Piece(cell(c), k) ] \o <<(<<>>)>> ]

Border == << <<"+---+">> >>
HeaderBorder == << <<"+===+">> >>

\* The rows of the grid, a border line between two rows
RECURSIVE grid_rows(_, _)
grid_rows(rows, ncols) ==
    IF rows = <<>> THEN <<>>
    ELSE row_lines(rows[1], ncols)
         \o (IF Len(rows) > 1 THEN <<Border>> ELSE <<>>)
         \o grid_rows(Tail(rows), ncols)

\* tabulate(rows, headers=..., tablefmt="grid") of the tabulate library: the
\* headers are padded in front up to the length of the first row, short rows
\* are padded with empty cells, and columns beyond the headers are dropped.
tabulate(rows, headers) ==
    LET pad == IF rows # <<>> /\ Len(rows[1]) > Len(headers)
               THEN Len(rows[1]) - Len(headers) ELSE 0
        hdrs == [ i \in 1..pad |-> <<>> ] \o [ i \in DOMAIN headers |-> <<headers[i]>> ]
        ncols == IF rows = <<>> THEN Len(hdrs)
                 ELSE Min({ Len(hdrs), Max({ Len(rows[i]) : i \in DOMAIN rows }) })
    IN  <<Border>> \o row_lines(hdrs, ncols) \o <<HeaderBorder>>
        \o grid_rows(rows, ncols) \o <<Border>>

\* The second table (275-295) for scalar values of the host state
host_state_table(r) ==
    LET keys == sorted_set(DOMAIN r.host_state)
    IN  tabulate([ i \in DOMAIN keys |->
                      <<(<<keys[i]>>), <<r.host_state[keys[i]]>> >> ],
                 <<"State", "Value">>)

\* generate (221-298): the Report it leaves, the lines of the text it returns
\* and the error it raised
generate(r) ==
    LET r1 == stamp_hostname(r)
        named == Range(r1.success) \cup DOMAIN r1.warning_id
                    \cup DOMAIN r1.failure_id
        t1 == tabulate(table_rows(r1), <<"Test", "Status", "Reasons", "Tags">>)
    IN  IF ~(named \subseteq DOMAIN r1.tags)
        THEN [rep |-> r1, out |-> None, err |-> "KeyError"]
        ELSE IF IsStr(r1.host_state)
        THEN [rep |-> r1, out |-> None, err |-> "AttributeError"]
        ELSE [rep |-> r1, err |-> None,
              out |-> IF r1.host_state # EmptyDict
                      THEN << <<(<<"HOST:", r1.hostname>>)>> >> \o t1
                              \o host_state_table(r1)
                      ELSE t1 ]

\* " ".join of words: the text of a piece
RECURSIVE Text(_)
Text(words) ==
    IF words = <<>> THEN ""
    ELSE IF Len(words) = 1 THEN words[1]
    ELSE words[1] \o " " \o Text(Tail(words))

\* The body of read_report's loop (546-564) for one line; st holds in_report
\* (rep), header_skip, prevr, prevt and the error raised (err)
read_line(st, line, warnings) ==
    IF Len(line) < 2 THEN st
    ELSE IF st.header_skip THEN [st EXCEPT !.header_skip = FALSE]
    ELSE LET fields == SubSeq(line, 2, Len(line) - 1)
         IN  IF Len(fields) # 5 THEN [st EXCEPT !.err = "ValueError"]
             ELSE
             LET carried == Text(fields[2]) = ""
                 test == IF carried THEN st.prevt ELSE Text(fields[1])
                 result == IF carried THEN st.prevr ELSE Text(fields[2])
                 reason == Text(fields[3])
                 uid == Text(fields[4])
                 tags == fields[5]
                 res == CASE result = FAILURE ->
                               add_failure(st.rep, test, reason, uid, tags, None)
                          [] result = WARNING ->
                               add_warning(st.rep, warnings, test, reason, uid,
                                           tags, None)
                          [] result = SUCCESS -> add_success(st.rep, test, tags)
                          [] OTHER -> Ok(st.rep)
             IN  [st EXCEPT !.rep = res.rep, !.err = res.err,
                            !.prevr = result, !.prevt = test]

\* for line in f (545): from the i-th line on, until a line raises
RECURSIVE read_lines(_, _, _, _)
read_lines(st, lines, i, warnings) ==
    IF i > Len(lines) \/ st.err # None THEN st
    ELSE read_lines(read_line(st, lines[i], warnings), lines, i + 1, warnings)

\* read_report (539-565): the Report it built and the error it raised
read_report(infile, warnings) ==
    LET st == read_lines([rep |-> Report, header_skip |-> TRUE, prevr |-> None,
                          prevt |-> None, err |-> None], infile, 1, warnings)
    IN  [rep |-> st.rep, err |-> st.err]

-----------------------------------------------------------------------------
(* Spec: sequential calls on the Report *)

\* An entry of the history: the call, the value of WARNINGS when it was made,
\* the error it raised (None: it returned) and whether it changed the Report.
Call(op, name, site, tags, warnings, res) ==
    [ op |-> op, name |-> name, reason |-> site.reason, uid |-> site.uid,
      fix |-> site.fix, tags |-> tags, warnings |-> warnings,
      err |-> res.err, recorded |-> (res.rep # report) ]

NoSite == [reason |-> None, uid |-> None, fix |-> None]

\* No report file has been written or read, no config text parsed
\* Nothing of the ledger, the step-wise parser, the polls or the scan is
\* in use
AuxIdle ==
    /\ ledger = None
    /\ parser = None
    /\ arp = None
    /\ iscsi = None

IoIdle ==
    /\ report_file = None
    /\ in_report = None
    /\ mconf = <<>>
    /\ tree = None
    /\ AuxIdle

RunIdle ==
    /\ check_list = <<>>
    /\ sel = [tags |-> {}, not_tags |-> {}]
    /\ threads = <<>>
    /\ mainpc = "idle"
    /\ joined = 0

\* Module import: report = Report() (319), WARNINGS = True (119)
Init ==
    /\ report = Report
    /\ WARNINGS = TRUE
    /\ calls = <<>>
    /\ RunIdle
    /\ IoIdle

\* ddct.checker (70-74): common.WARNINGS = not args.disable_warnings
Checker(disable_warnings) ==
    /\ Len(calls) < MaxCalls
    /\ WARNINGS' = ~disable_warnings
    /\ calls' = Append(calls,
                  Call("checker", None, NoSite, <<>>, ~disable_warnings,
                       Ok(report)))
    /\ UNCHANGED <<ioVars, report, runVars>>

AddSuccess(name, tags) ==
    /\ Len(calls) < MaxCalls
    /\ LET res == add_success(report, name, tags) IN
         /\ report' = res.rep
         /\ calls' = Append(calls,
                       Call("add_success", name, NoSite, tags, WARNINGS, res))
    /\ UNCHANGED <<ioVars, WARNINGS, runVars>>

AddWarning(name, site, tags) ==
    /\ Len(calls) < MaxCalls
    /\ LET res == add_warning(report, WARNINGS, name, site.reason, site.uid,
                              tags, site.fix) IN
         /\ report' = res.rep
         /\ calls' = Append(calls,
                       Call("add_warning", name, site, tags, WARNINGS, res))
    /\ UNCHANGED <<ioVars, WARNINGS, runVars>>

AddFailure(name, site, tags) ==
    /\ Len(calls) < MaxCalls
    /\ LET res == add_failure(report, name, site.reason, site.uid,
                              tags, site.fix) IN
         /\ report' = res.rep
         /\ calls' = Append(calls,
                       Call("add_failure", name, site, tags, WARNINGS, res))
    /\ UNCHANGED <<ioVars, WARNINGS, runVars>>

Next ==
    \/ \E d \in BOOLEAN : Checker(d)
    \/ \E n \in Names, t \in TagArgs : AddSuccess(n, t)
    \/ \E n \in Names, s \in Sites, t \in TagArgs : AddWarning(n, s, t)
    \/ \E n \in Names, s \in Sites, t \in TagArgs : AddFailure(n, s, t)

Spec == Init /\ [][Next]_vars

-----------------------------------------------------------------------------
(* SpecRender: the calls of Spec, the three renderings of the Report, and    *)
(* read_report on the file the table was written to                          *)

\* gen_report(outfile) (502-536) with ojson false: report.generate(), and
\* the text is written to the file
Generate ==
    /\ Len(calls) < MaxCalls
    /\ LET res == generate(report)
       IN  /\ report' = res.rep
           /\ report_file' = IF res.err = None THEN res.out ELSE report_file
           /\ calls' = Append(calls,
                  Call("generate", None, NoSite, <<>>, WARNINGS, res))
    /\ UNCHANGED <<WARNINGS, runVars, in_report, mconf, tree, auxVars>>

\* report.gen_json()
GenJson ==
    /\ Len(calls) < MaxCalls
    /\ LET res == gen_json(report)
       IN  /\ report' = res.rep
           /\ calls' = Append(calls,
                  Call("gen_json", None, NoSite, <<>>, WARNINGS, Ok(res.rep)))
    /\ UNCHANGED <<WARNINGS, runVars, ioVars>>

\* report.code_list(): nothing is assigned to the Report
CodeList ==
    /\ Len(calls) < MaxCalls
    /\ calls' = Append(calls,
           Call("code_list", None, NoSite, <<>>, WARNINGS, Ok(report)))
    /\ UNCHANGED <<report, WARNINGS, runVars, ioVars>>

\* ddct.fixer (121-122): report = read_report(args.in_report), on the file a
\* run has written
ReadReport ==
    /\ Len(calls) < MaxCalls
    /\ report_file # None
    /\ LET res == read_report(report_file, WARNINGS)
       IN  /\ in_report' = res
           /\ calls' = Append(calls,
                  Call("read_report", None, NoSite, <<>>, WARNINGS,
                       [rep |-> report, err |-> res.err]))
    /\ UNCHANGED <<report, WARNINGS, runVars, report_file, mconf, tree, auxVars>>

NextRender ==
    \/ Next
    \/ Generate
    \/ GenJson
    \/ CodeList
    \/ ReadReport

SpecRender == Init /\ [][NextRender]_vars

-----------------------------------------------------------------------------
(* SpecRead: read_report on a report file of any content *)

\* The lines a report file is made of: a border, a header, a failure row, a
\* continuation row, a success row (the five columns read_report expects), a
\* failure row as generate() renders it (four columns), and a line with a
\* pipe and no column at all ("x | y").
FileLines ==
    { Border,
      << <<>>, <<"Test">>, <<"Status">>, <<"Reasons">>, <<"Code">>, <<"Tags">>, <<>> >>,
      << <<>>, <<"A">>, <<FAILURE>>, <<"r1">>, <<"c1">>, <<"t1">>, <<>> >>,
      << <<>>, <<>>, <<>>, <<"r2">>, <<"c2">>, <<"t2">>, <<>> >>,
      << <<>>, <<"B">>, <<SUCCESS>>, <<>>, <<>>, <<"t1", "t2">>, <<>> >>,
      << <<>>, <<"A">>, <<FAILURE>>, <<"r1">>, <<"t1">>, <<>> >>,
      << <<"x">>, <<"y">> >> }

\* The report files of at most n lines
RECURSIVE FilesUpTo(_)
FilesUpTo(n) ==
    IF n = 0 THEN { <<>> }
    ELSE LET F == FilesUpTo(n - 1)
         IN  F \cup { Append(f, l) : f \in F, l \in FileLines }

InitRead ==
    /\ report = Report
    /\ WARNINGS = TRUE
    /\ calls = <<>>
    /\ RunIdle
    /\ report_file \in FilesUpTo(MaxLines)
    /\ in_report = None
    /\ mconf = <<>>
    /\ tree = None
    /\ AuxIdle

SpecRead == InitRead /\ [][ReadReport]_vars

-----------------------------------------------------------------------------
(* SpecRun: run_checks (checkers.py 390-408) and the check wrapper          *)
(* (common.py 351-383, 462-495)                                             *)

\* One call of ff / wf in a check body, or an error escaping the body.
Op(kind, site) == [op |-> kind, site |-> site]

S1 == [reason |-> "r1", uid |-> "c1", fix |-> "f1"]
S2 == [reason |-> "r2", uid |-> "c1", fix |-> None]

\* @check(name, *tags) def body(config): ...
\* A body is a black box to the core: it is the sequence of ff / wf calls it
\* makes, ended by its return or by an error that escapes it.
Check(name, tags, body) == [name |-> name, tags |-> tags, body |-> body]

CheckDefs ==
    { Check("A", <<"t1">>, <<>>),
      Check("B", <<"t2">>, <<>>),
      Check("A", <<"t1">>, <<Op("ff", S1)>>),
      Check("B", <<"t1", "t2">>, <<Op("wf", S2)>>),
      Check("B", <<"t1">>, <<Op("raise", NoSite)>>) }

\* The registries explored: every sequence of 1..MaxChecks checks.
RECURSIVE SeqsUpTo(_, _)
SeqsUpTo(S, n) ==
    IF n = 0 THEN { <<>> }
    ELSE LET shorter == SeqsUpTo(S, n - 1)
         IN  shorter \cup { Append(q, x) : q \in shorter, x \in S }

Registries == SeqsUpTo(CheckDefs, MaxChecks) \ { <<>> }

\* The tags / not_tags arguments of run_checks
TagSel == { {}, {"t1"} }
NotTagSel == { {}, {"t2"} }

\* Variant of Filter: a check with a tag of `tags` is kept whatever
\* not_tags says.
RECURSIVE Filter_inclusion_wins(_, _, _)
Filter_inclusion_wins(list, tags, not_tags) ==
    IF list = <<>> THEN <<>>
    ELSE LET x == Head(list)
             keep == IF tags # {} THEN \E t \in tags : t \in Range(x.tags)
                     ELSE (not_tags # {} =>
                              ~ \E t \in not_tags : t \in Range(x.tags))
             rest == Filter_inclusion_wins(Tail(list), tags, not_tags)
         IN  IF keep THEN <<x>> \o rest ELSE rest

\* run_checks 396-402: the two filters, in registry order
RECURSIVE Filter(_, _, _)
Filter(list, tags, not_tags) ==
    IF list = <<>> THEN <<>>
    ELSE LET x == Head(list)
             keep == /\ (tags # {} => \E t \in tags : t \in Range(x.tags))
                     /\ (not_tags # {} =>
                            ~ \E t \in not_tags : t \in Range(x.tags))
             rest == Filter(Tail(list), tags, not_tags)
         IN  IF keep THEN <<x>> \o rest ELSE rest

Selected == Filter(check_list, sel.tags, sel.not_tags)

\* threading.Thread(target=ck, args=(config,)): the thread is at the start of
\* _inner_check_func, about to call the body.
Thread(ck) ==
    [ name |-> ck.name, tags |-> ck.tags, body |-> ck.body,
      ip |-> 1,          \* the next call of the body
      pc |-> "body",     \* the statement the thread executes next
      cur |-> None,      \* the reporting call it is in: "ff", "wf" or "sf"
      i |-> 0 ]          \* the index of the tag loop

Finished(th) == th.pc \in {"done", "raised"}

\* Process start, after ddct.checker has set the global flags
InitRun ==
    /\ report = Report
    /\ WARNINGS \in BOOLEAN
    /\ calls = <<>>
    /\ check_list \in Registries
    /\ sel = [tags |-> {}, not_tags |-> {}]
    /\ threads = <<>>
    /\ mainpc = "idle"
    /\ joined = 0
    /\ IoIdle

\* run_checks entered (plugins=None): the checks are filtered
RunChecks(tags, not_tags) ==
    /\ mainpc = "idle"
    /\ sel' = [tags |-> tags, not_tags |-> not_tags]
    /\ mainpc' = IF Filter(check_list, tags, not_tags) = <<>>
                 THEN "join" ELSE "start"
    /\ UNCHANGED <<ioVars, report, WARNINGS, calls, check_list, threads, joined>>

\* 403-406: thread = Thread(target=ck); threads.append(thread); thread.start()
StartThread ==
    /\ mainpc = "start"
    /\ Len(threads) < Len(Selected)
    /\ threads' = Append(threads, Thread(Selected[Len(threads) + 1]))
    /\ mainpc' = IF Len(threads) + 1 = Len(Selected) THEN "join" ELSE "start"
    /\ UNCHANGED <<ioVars, report, WARNINGS, calls, check_list, sel, joined>>

\* Variant of JoinReady: join() does not wait for the thread.
JoinReady_no_wait(th) == TRUE

\* thread.join() returns once the thread has ended, normally or by an error:
\* threading reports an uncaught error of a thread and ends that thread only.
JoinReady(th) == Finished(th)

\* 407-408: for thread in threads: thread.join()
Join ==
    /\ mainpc = "join"
    /\ joined < Len(threads)
    /\ JoinReady(threads[joined + 1])
    /\ joined' = joined + 1
    /\ UNCHANGED <<ioVars, report, WARNINGS, calls, check_list, sel, threads, mainpc>>

\* the loop of joins is over: run_checks returns
Return ==
    /\ mainpc = "join"
    /\ joined = Len(threads)
    /\ mainpc' = "returned"
    /\ UNCHANGED <<ioVars, report, WARNINGS, calls, check_list, sel, threads, joined>>

-----------------------------------------------------------------------------
(* The steps of a thread.  A step is one access to the shared Report (or to *)
(* WARNINGS) together with the local computation that follows it: a test of *)
(* membership, a store into a dict, an append to a list or an add to a set  *)
(* is one operation of the interpreter; a thread switch can occur between   *)
(* any two of them, and no statement of the Report takes a lock.            *)

\* A reporting call has returned: ff / wf return into the body, sf returns
\* into _inner_check_func, which returns.
AfterCall(th) ==
    IF th.cur = "sf"
    THEN [th EXCEPT !.pc = "done", !.cur = None]
    ELSE [th EXCEPT !.pc = "body", !.ip = @ + 1, !.cur = None]

\* The tag loop from index i on: the next add, or the end of the call.
TagLoop(th, i) ==
    IF i > Len(th.tags) THEN AfterCall(th)
    ELSE [th EXCEPT !.pc = "t_add", !.i = i]

\* if name not in tags: self.tags[name] = set()    (the test is local)
TagTail(th) ==
    IF th.name \notin Range(th.tags)
    THEN [th EXCEPT !.pc = "t_reset"]
    ELSE TagLoop(th, 1)

\* Variant of Raise: the wrapper calls sf() although the body raised.
Raise_then_sf(th) == [th EXCEPT !.pc = "s_chk_w", !.cur = "sf"]

\* An error raised in the thread: it escapes the body and _inner_check_func
\* (which has no handler, 375-380), so sf() is not called.
Raise(th) == [th EXCEPT !.pc = "raised"]

\* Variant of WrapperReturn: the wrapper returns without calling sf().
WrapperReturn_no_sf(th, r) == [th EXCEPT !.pc = "done"]

\* _inner_check_func 378-379: result = func(...); sf()
\* sf() -> add_success: the first test of its guard, name not in self.failure
WrapperReturn(th, r) ==
    IF th.name \in DOMAIN r.failure
    THEN [th EXCEPT !.pc = "done"]
    ELSE [th EXCEPT !.pc = "s_chk_w", !.cur = "sf"]

\* The effect of a thread's step on (thread, report): [th |-> .., rep |-> ..]
To(th, r) == [th |-> th, rep |-> r]

BodyEffect(th, r, warnings) ==
    IF th.ip > Len(th.body) THEN To(WrapperReturn(th, r), r)
    ELSE LET o == th.body[th.ip] IN
         CASE o.op = "raise" -> To(Raise(th), r)
           [] o.op = "ff" ->
                \* add_failure 201: if name not in self.failure
                To([th EXCEPT !.cur = "ff",
                       !.pc = IF th.name \notin DOMAIN r.failure
                              THEN "f_init" ELSE "f_append"], r)
           [] o.op = "wf" ->
                \* add_warning 185-186: if WARNINGS: if name not in self.warning
                IF ~warnings THEN To([th EXCEPT !.ip = @ + 1], r)
                ELSE To([th EXCEPT !.cur = "wf",
                            !.pc = IF th.name \notin DOMAIN r.warning
                                   THEN "w_init" ELSE "w_append"], r)

\* after the by-id entry: if fix: ... ; then the tags
AfterById(th) ==
    IF th.body[th.ip].site.fix # None
    THEN [th EXCEPT !.pc = "fix"]
    ELSE TagTail(th)

FailEffect(th, r) ==
    LET site == th.body[th.ip].site
        issue == format_issue(site.reason, site.uid)
    IN  CASE th.pc = "f_init" ->
                To([th EXCEPT !.pc = "f_id_init"], failure_init(r, th.name))
          [] th.pc = "f_id_init" ->
                To([th EXCEPT !.pc = "f_append"], failure_id_init(r, th.name))
          [] th.pc = "f_append" ->
                To([th EXCEPT !.pc = "f_id_append"],
                   failure_append(r, th.name, issue))
          [] th.pc = "f_id_append" ->
                IF th.name \notin DOMAIN r.failure_id
                THEN To(Raise(th), r)      \* KeyError
                ELSE To([th EXCEPT !.pc = "f_by_id"],
                        failure_id_append(r, th.name, site.uid))
          [] th.pc = "f_by_id" ->
                To(AfterById(th),
                   failure_by_id_set(r, site.uid, th.name, issue))

WarnEffect(th, r) ==
    LET site == th.body[th.ip].site
        issue == format_issue(site.reason, site.uid)
    IN  CASE th.pc = "w_init" ->
                To([th EXCEPT !.pc = "w_id_init"], warning_init(r, th.name))
          [] th.pc = "w_id_init" ->
                To([th EXCEPT !.pc = "w_append"], warning_id_init(r, th.name))
          [] th.pc = "w_append" ->
                To([th EXCEPT !.pc = "w_id_append"],
                   warning_append(r, th.name, issue))
          [] th.pc = "w_id_append" ->
                IF th.name \notin DOMAIN r.warning_id
                THEN To(Raise(th), r)      \* KeyError
                ELSE To([th EXCEPT !.pc = "w_by_id"],
                        warning_id_append(r, th.name, site.uid))
          [] th.pc = "w_by_id" ->
                To(AfterById(th),
                   warning_by_id_set(r, site.uid, th.name, issue))

FixEffect(th, r) ==
    LET site == th.body[th.ip].site
    IN  To(TagTail(th), fix_by_id_set(r, site.uid, site.fix))

TagEffect(th, r) ==
    CASE th.pc = "t_reset" -> To(TagLoop(th, 1), tags_reset(r, th.name))
      [] th.pc = "t_add" ->
            IF th.name \notin DOMAIN r.tags
            THEN To(Raise(th), r)          \* KeyError
            ELSE To(TagLoop(th, th.i + 1),
                    tags_add(r, th.name, th.tags[th.i]))

\* add_success 176-177 after its first test
SuccessEffect(th, r) ==
    CASE th.pc = "s_chk_w" ->
            IF th.name \in DOMAIN r.warning
            THEN To(AfterCall(th), r)
            ELSE To([th EXCEPT !.pc = "s_append"], r)
      [] th.pc = "s_append" -> To(TagTail(th), success_append(r, th.name))

Apply(t, eff) ==
    /\ threads' = [threads EXCEPT ![t] = eff.th]
    /\ report' = eff.rep
    /\ UNCHANGED <<ioVars, WARNINGS, calls, check_list, sel, mainpc, joined>>

BodyStep(t) ==
    /\ threads[t].pc = "body"
    /\ Apply(t, BodyEffect(threads[t], report, WARNINGS))

FailStep(t) ==
    /\ threads[t].pc \in {"f_init", "f_id_init", "f_append", "f_id_append",
                          "f_by_id"}
    /\ Apply(t, FailEffect(threads[t], report))

WarnStep(t) ==
    /\ threads[t].pc \in {"w_init", "w_id_init", "w_append", "w_id_append",
                          "w_by_id"}
    /\ Apply(t, WarnEffect(threads[t], report))

FixStep(t) ==
    /\ threads[t].pc = "fix"
    /\ Apply(t, FixEffect(threads[t], report))

TagStep(t) ==
    /\ threads[t].pc \in {"t_reset", "t_add"}
    /\ Apply(t, TagEffect(threads[t], report))

SuccessStep(t) ==
    /\ threads[t].pc \in {"s_chk_w", "s_append"}
    /\ Apply(t, SuccessEffect(threads[t], report))

ThreadStep(t) ==
    \/ BodyStep(t)
    \/ FailStep(t)
    \/ WarnStep(t)
    \/ FixStep(t)
    \/ TagStep(t)
    \/ SuccessStep(t)

NextRun ==
    \/ \E tg \in TagSel, nt \in NotTagSel : RunChecks(tg, nt)
    \/ StartThread
    \/ Join
    \/ Return
    \/ \E t \in DOMAIN threads : BodyStep(t)
    \/ \E t \in DOMAIN threads : FailStep(t)
    \/ \E t \in DOMAIN threads : WarnStep(t)
    \/ \E t \in DOMAIN threads : FixStep(t)
    \/ \E t \in DOMAIN threads : TagStep(t)
    \/ \E t \in DOMAIN threads : SuccessStep(t)

SpecRun == InitRun /\ [][NextRun]_vars

-----------------------------------------------------------------------------
(* Properties of the Report under sequential calls (Spec)                   *)

LastCall == calls[Len(calls)]

\* The step made is a call of `op` (the history grew by that call)
Called(op) == Len(calls') = Len(calls) + 1 /\ calls'[Len(calls')].op = op

NoCallRaised == \A i \in DOMAIN calls : calls[i].err = None

\* Calls on name n that were recorded (that changed the Report)
RecordedCalls(n, op) ==
    { i \in DOMAIN calls :
        calls[i].name = n /\ calls[i].op = op /\ calls[i].recorded }

InSuccess(n) == n \in Range(report.success)
InWarning(n) == n \in DOMAIN report.warning
InFailure(n) == n \in DOMAIN report.failure

\* C1: for every sequence of add_failure / add_warning / add_success calls on
\* a name, in any order, the name is classified Failure if a failure was
\* recorded, else Warning if a warning was recorded, else Success, and it is
\* a member of at most one of the success list, the warning map and the
\* failure map.
C1_OneClassification ==
    NoCallRaised =>
    \A n \in Names :
        LET f == RecordedCalls(n, "add_failure") # {}
            w == RecordedCalls(n, "add_warning") # {}
            s == RecordedCalls(n, "add_success") # {}
        IN  /\ f => InFailure(n) /\ ~InWarning(n) /\ ~InSuccess(n)
            /\ (~f /\ w) => InWarning(n) /\ ~InFailure(n) /\ ~InSuccess(n)
            /\ (~f /\ ~w /\ s) => InSuccess(n) /\ ~InFailure(n) /\ ~InWarning(n)

\* C7: add_success for a name that has a recorded failure changes no field of
\* the Report, raises nothing, and the name still shows as Failure.
C7_SuccessAfterFailureNoOp ==
    [][ (Called("add_success") /\ InFailure(calls'[Len(calls')].name))
         => /\ report' = report
            /\ calls'[Len(calls')].err = None
            /\ calls'[Len(calls')].name \in DOMAIN report'.failure ]_vars

\* C7's case: the last call was an add_success for a name with a failure.
C7_Witness ==
    /\ calls # <<>>
    /\ LastCall.op = "add_success"
    /\ InFailure(LastCall.name)

\* C8: add_success is idempotent: a second add_success(name, tags) with the
\* arguments of the call before it leaves the Report as the first left it.
C8_AddSuccessIdempotent ==
    [][ ( /\ Called("add_success")
          /\ calls # <<>>
          /\ LastCall.op = "add_success"
          /\ LastCall.err = None
          /\ LastCall.name = calls'[Len(calls')].name
          /\ LastCall.tags = calls'[Len(calls')].tags )
         => report' = report ]_vars

\* The union of the tags passed in the recorded calls for name n
SeenTags(n) ==
    UNION { Range(calls[i].tags) :
              i \in { j \in DOMAIN calls : calls[j].name = n /\ calls[j].recorded } }

\* C9: the tags stored for a name are the union of the tags passed in every
\* recorded call for that name.
C9_TagsAreUnion ==
    NoCallRaised =>
    \A n \in Names :
        (\E i \in DOMAIN calls : calls[i].name = n /\ calls[i].recorded)
        => /\ n \in DOMAIN report.tags
           /\ report.tags[n] = SeenTags(n)

\* C10 as stated: every code passed to add_failure or add_warning is in the
\* result of code_list().
C10_AllCodesRetrievable ==
    \A i \in DOMAIN calls :
        calls[i].op \in {"add_failure", "add_warning"}
        => calls[i].uid \in DOMAIN code_list(report, WARNINGS)

\* C10 amended: code_list() holds every code passed to add_failure, and every
\* code passed to add_warning while warnings were enabled provided they are
\* enabled when code_list() is called.
C10_RecordedCodesRetrievable ==
    \A i \in DOMAIN calls :
        /\ calls[i].op = "add_failure"
           => calls[i].uid \in DOMAIN code_list(report, WARNINGS)
        /\ (calls[i].op = "add_warning" /\ calls[i].warnings /\ WARNINGS)
           => calls[i].uid \in DOMAIN code_list(report, WARNINGS)

\* C10's case: a failure and a warning with different codes were recorded
\* and code_list() is called with warnings enabled.
C10_Witness ==
    /\ WARNINGS
    /\ \E i, j \in DOMAIN calls :
          /\ calls[i].op = "add_failure"
          /\ calls[j].op = "add_warning" /\ calls[j].warnings
          /\ calls[i].uid # calls[j].uid
          /\ {calls[i].uid, calls[j].uid} \subseteq
                DOMAIN code_list(report, WARNINGS)

-----------------------------------------------------------------------------
(* Properties of run_checks and the check wrapper (SpecRun)                 *)

Returned == mainpc = "returned"

\* The body of thread t raised (the error did not come from the wrapper's sf)
BodyRaised(t) == threads[t].pc = "raised" /\ threads[t].cur # "sf"

\* The body of check ck makes a call of kind `op`
Makes(ck, op) == \E k \in DOMAIN ck.body : ck.body[k].op = op

\* Every check of the sequence cs only records a Success, under its own name
OnlySuccessDistinct(cs) ==
    /\ \A k \in DOMAIN cs : cs[k].body = <<>>
    /\ \A k, l \in DOMAIN cs : k # l => cs[k].name # cs[l].name

ClassifiedIn(r, n) ==
    n \in Range(r.success) \/ n \in DOMAIN r.warning \/ n \in DOMAIN r.failure

Classified(n) == ClassifiedIn(report, n)

\* C2: N checks that each only record a Success for a distinct name leave,
\* once run_checks has returned, exactly N success entries, one per name,
\* under every interleaving of the threads.
C2_NoLostSuccess ==
    (Returned /\ OnlySuccessDistinct(Selected))
    => /\ Len(report.success) = Len(Selected)
       /\ \A k \in DOMAIN Selected : Count(Selected[k].name, report.success) = 1

\* C2's case: run_checks has returned from a run of two such checks.
C2_Witness ==
    /\ Returned
    /\ OnlySuccessDistinct(Selected)
    /\ Len(Selected) >= 2
    /\ Len(report.success) >= 2

\* C3: after two threads have each called add_failure for the same name and
\* both have returned, the name's reason list and code list hold both
\* threads' entries and have equal length.
C3_SameNameFailuresKept ==
    \A t, u \in DOMAIN threads :
        ( /\ t # u
          /\ threads[t].name = threads[u].name
          /\ Makes(threads[t], "ff") /\ Makes(threads[u], "ff")
          /\ threads[t].pc = "done" /\ threads[u].pc = "done" )
        => LET n == threads[t].name IN
           /\ n \in DOMAIN report.failure /\ n \in DOMAIN report.failure_id
           /\ Len(report.failure[n]) >= 2
           /\ Len(report.failure_id[n]) >= 2
           /\ Len(report.failure[n]) = Len(report.failure_id[n])

\* C4: run_checks starts one thread per selected check, in order, and in no
\* state after it has returned is a thread still running.
C4_ReturnAfterAllFinished ==
    Returned
    => /\ Len(threads) = Len(Selected)
       /\ \A t \in DOMAIN threads :
             /\ threads[t].name = Selected[t].name
             /\ threads[t].body = Selected[t].body
             /\ Finished(threads[t])
       /\ ~ ENABLED (\E t \in DOMAIN threads : ThreadStep(t))

\* C4's case: run_checks has returned from a run of two or more threads.
C4_Witness == Returned /\ Len(threads) >= 2

\* C5 as stated: once a check body has raised, run_checks does not complete
\* normally.
C5_RaiseAbortsRun == (\E t \in DOMAIN threads : BodyRaised(t)) => ~Returned

\* C5 amended: a check body that raises ends only its own thread.  run_checks
\* is never blocked by it and returns once every thread has ended; every check
\* that ran to its end has its outcome in the Report; the check that raised
\* gets no implicit Success.
C5_RaiseEndsOnlyItsThread ==
    /\ (mainpc \in {"start", "join"}) => ENABLED NextRun
    /\ \A t \in DOMAIN threads :
          LET th == threads[t] IN
          \* the body has executed its raise: the thread has ended by it
          ( /\ th.ip <= Len(th.body)
            /\ th.body[th.ip].op = "raise"
            /\ th.pc # "body" )
          => /\ BodyRaised(t)
             /\ (\A u \in DOMAIN threads : u # t => threads[u].name # th.name)
                => ~InSuccess(th.name)
    /\ Returned =>
         \A t \in DOMAIN threads :
            /\ Finished(threads[t])
            /\ threads[t].pc = "done" => Classified(threads[t].name)
            /\ ( /\ BodyRaised(t)
                 /\ \A u \in DOMAIN threads :
                       u # t => threads[u].name # threads[t].name )
               => ~InSuccess(threads[t].name)

\* C5's case: run_checks has returned, one body raised, another check ran to
\* its end.
C5_Witness ==
    /\ Returned
    /\ \E t, u \in DOMAIN threads :
          /\ BodyRaised(t)
          /\ threads[u].pc = "done"
          /\ Classified(threads[u].name)

\* Thread t makes the step
Steps(t) == t \in DOMAIN threads /\ t \in DOMAIN threads' /\ threads'[t] # threads[t]

\* C6: when a check body returns normally the wrapper records a Success for
\* the check's name unless a Warning or Failure is recorded for it, and then
\* the implicit success call changes nothing.
C6_ImplicitSuccess ==
    [][ \A t \in DOMAIN threads' :
          LET th == threads'[t] IN
          \* the wrapper has returned: the name has a classification
          /\ th.pc = "done" => ClassifiedIn(report', th.name)
          \* the guard of the implicit add_success finds the name recorded
          /\ ( /\ Steps(t)
               /\ \/ /\ threads[t].pc = "body"
                     /\ threads[t].ip > Len(threads[t].body)
                     /\ InFailure(th.name)
                  \/ /\ threads[t].pc = "s_chk_w"
                     /\ InWarning(th.name) )
             => report' = report /\ th.pc = "done"
          \* it finds no failure and no warning: the name is appended
          /\ ( /\ Steps(t)
               /\ threads[t].pc = "s_chk_w"
               /\ ~InWarning(th.name) )
             => th.pc = "s_append"
          /\ (Steps(t) /\ threads[t].pc = "s_append")
             => report'.success = Append(report.success, th.name)
      ]_vars

\* C6's case: one wrapper has recorded the implicit Success, another has
\* returned without it because its body recorded a failure.
C6_Witness ==
    \E t, u \in DOMAIN threads :
        /\ threads[t].pc = "done" /\ threads[t].body = <<>>
        /\ InSuccess(threads[t].name)
        /\ threads[u].pc = "done" /\ Makes(threads[u], "ff")
        /\ InFailure(threads[u].name) /\ ~InSuccess(threads[u].name)

-----------------------------------------------------------------------------
(* parse_mconf (common.py 424-441) and SpecParse.                            *)
(*                                                                           *)
(* A line of the text is kept as what line.strip().split() makes of it: the  *)
(* sequence of its tokens, a token being the sequence of its characters.     *)

\* The characters str.strip("\"'") removes
Quotes == {"'", "\""}

\* " ".join(tokens)
RECURSIVE join(_)
join(tokens) ==
    IF tokens = <<>> THEN <<>>
    ELSE IF Len(tokens) = 1 THEN tokens[1]
    ELSE tokens[1] \o <<" ">> \o join(Tail(tokens))

\* str.strip("\"'"): the quotes at both ends are removed
RECURSIVE strip(_)
strip(chars) ==
    IF chars = <<>> THEN <<>>
    ELSE IF chars[1] \in Quotes THEN strip(Tail(chars))
    ELSE IF chars[Len(chars)] \in Quotes
         THEN strip(SubSeq(chars, 1, Len(chars) - 1))
    ELSE chars

\* An entry of the result: [key, value] with a string or with a list
Scalar(key, chars) == <<key, [str |-> chars]>>
Block(key, entries) == <<key, [list |-> entries]>>

\* Variant of helper: a line ending with "}" is an entry like any other.
RECURSIVE helper_ignores_close(_, _)
helper_ignores_close(lines, i) ==
    IF i > Len(lines) THEN [result |-> <<>>, next |-> i]
    ELSE LET line == lines[i]
         IN  IF line = <<>> \/ line[1][1] = "#"
             THEN helper_ignores_close(lines, i + 1)
             ELSE IF line[Len(line)] = <<"{">>
             THEN LET child == helper_ignores_close(lines, i + 1)
                      rest == helper_ignores_close(lines, child.next)
                  IN  [ result |-> <<Block(line[1], child.result)>> \o rest.result,
                        next |-> rest.next ]
             ELSE LET rest == helper_ignores_close(lines, i + 1)
                  IN  [ result |-> <<Scalar(line[1], strip(join(Tail(line))))>>
                                      \o rest.result,
                        next |-> rest.next ]

\* _helper (426-439) on the shared iterator `lines`, from its i-th line on:
\* the list it returns and the place of the iterator when it returns
RECURSIVE helper(_, _)
helper(lines, i) ==
    IF i > Len(lines) THEN [result |-> <<>>, next |-> i]
    ELSE LET line == lines[i]
         IN  IF line = <<>> \/ line[1][1] = "#"
             THEN helper(lines, i + 1)
             ELSE IF line[Len(line)] = <<"{">>
             THEN LET child == helper(lines, i + 1)
                      rest == helper(lines, child.next)
                  IN  [ result |-> <<Block(line[1], child.result)>> \o rest.result,
                        next |-> rest.next ]
             ELSE IF line[Len(line)] = <<"}">>
             THEN [result |-> <<>>, next |-> i + 1]
             ELSE LET rest == helper(lines, i + 1)
                  IN  [ result |-> <<Scalar(line[1], strip(join(Tail(line))))>>
                                      \o rest.result,
                        next |-> rest.next ]

\* parse_mconf (424-441)
parse_mconf(data) == helper(data, 1).result

\* The lines a text is made of: a blank line, the comment "#c {", "a {",
\* "}", "b '1 2'" and "b }"
ConfLines ==
    { <<>>,
      << <<"#", "c">>, <<"{">> >>,
      << <<"a">>, <<"{">> >>,
      << <<"}">> >>,
      << <<"b">>, <<"'", "1">>, <<"2", "'">> >>,
      << <<"b">>, <<"}">> >> }

\* The texts of at most n lines
RECURSIVE ConfsUpTo(_)
ConfsUpTo(n) ==
    IF n = 0 THEN { <<>> }
    ELSE LET C == ConfsUpTo(n - 1)
         IN  C \cup { Append(c, l) : c \in C, l \in ConfLines }

InitParse ==
    /\ report = Report
    /\ WARNINGS = TRUE
    /\ calls = <<>>
    /\ RunIdle
    /\ report_file = None
    /\ in_report = None
    /\ mconf \in ConfsUpTo(MaxConfLines)
    /\ tree = None
    /\ AuxIdle

\* parse_mconf(data) is called on the text
ParseMconf ==
    /\ tree = None
    /\ tree' = parse_mconf(mconf)
    /\ UNCHANGED <<report, WARNINGS, calls, runVars, report_file, in_report,
                   mconf, auxVars>>

SpecParse == InitParse /\ [][ParseMconf]_vars

-----------------------------------------------------------------------------
(* Claims on code_list and on the by-code indexes, checked under Spec *)

\* The codes passed to add_failure so far
FailureCodes ==
    { calls[i].uid : i \in { j \in DOMAIN calls : calls[j].op = "add_failure" } }

\* The codes passed to add_warning so far while warnings were enabled
WarningCodes ==
    { calls[i].uid :
        i \in { j \in DOMAIN calls :
                  calls[j].op = "add_warning" /\ calls[j].warnings } }

\* C11: code_list() returns all failure codes plus all warning codes when
\* warnings are enabled; when warnings are disabled at the time of the call
\* it returns exactly the failure codes, whatever was recorded before.
C11_CodeListContents ==
    DOMAIN code_list(report, WARNINGS) =
        IF WARNINGS THEN FailureCodes \cup WarningCodes ELSE FailureCodes

\* C11's case: a warning and a failure were recorded under different codes,
\* warnings were disabled afterwards, and code_list() leaves the warning's
\* code out.
C11_Witness ==
    /\ ~WARNINGS
    /\ FailureCodes # {}
    /\ WarningCodes \ FailureCodes # {}
    /\ DOMAIN code_list(report, WARNINGS) = FailureCodes

\* C12: across the whole Report every recorded code maps to exactly one
\* (name, reason) pair and at most one fix string, also when the code was
\* recorded once as a warning and once as a failure or under two names.
\* The pairs of a code are those the Report's two by-code indexes hold, as
\* gen_json() returns them.
C12_OneMappingPerCode ==
    LET out == gen_json(report).out
        Pairs(c) ==
            (IF c \in DOMAIN out.warnings THEN {out.warnings[c]} ELSE {})
            \cup (IF c \in DOMAIN out.failures THEN {out.failures[c]} ELSE {})
    IN  \A c \in FailureCodes \cup WarningCodes : Cardinality(Pairs(c)) = 1

\* The last call that recorded the code c
LastRecording(c) ==
    LET R == { i \in DOMAIN calls :
                 /\ calls[i].uid = c
                 /\ \/ calls[i].op = "add_failure"
                    \/ calls[i].op = "add_warning" /\ calls[i].warnings }
    IN  calls[CHOOSE i \in R : \A j \in R : j <= i]

\* C13: recording a code again overwrites its reason mapping and its fix
\* mapping with the values of the latest call: after add_failure with fix F1
\* and a later record call with the same code, the fix stored for the code is
\* the latest call's fix, absent if that call gave none.
C13_LatestFixWins ==
    \A i \in DOMAIN calls :
        (calls[i].op = "add_failure" /\ calls[i].fix # None)
        => LET c == calls[i].uid
               last == LastRecording(c)
               byid == IF last.op = "add_failure" THEN report.failure_by_id
                       ELSE report.warning_by_id
           IN  /\ byid[c] = <<last.name, format_issue(last.reason, c)>>
               /\ IF last.fix = None THEN c \notin DOMAIN report.fix_by_id
                  ELSE report.fix_by_id[c] = format_fix(last.fix, c)

\* C14: while warnings are disabled add_warning leaves every field of the
\* Report unchanged and returns, whereas add_failure is still recorded (its
\* reason and code are appended under the name and indexed by the code).
C14_DisabledWarningSuppressed ==
    [][ LET c == calls'[Len(calls')]
        IN  /\ (Called("add_warning") /\ ~WARNINGS)
               => (report' = report /\ c.err = None)
            /\ (Called("add_failure") /\ ~WARNINGS)
               => /\ c.name \in DOMAIN report'.failure
                  /\ c.name \in DOMAIN report'.failure_id
                  /\ LET l == report'.failure[c.name]
                         ids == report'.failure_id[c.name]
                     IN  /\ l # <<>> /\ l[Len(l)] = format_issue(c.reason, c.uid)
                         /\ ids # <<>> /\ ids[Len(ids)] = c.uid
                         /\ Len(l) = (IF c.name \in DOMAIN report.failure
                                      THEN Len(report.failure[c.name]) ELSE 0) + 1
                  /\ c.uid \in DOMAIN report'.failure_by_id
                  /\ report'.failure_by_id[c.uid]
                        = <<c.name, format_issue(c.reason, c.uid)>>
      ]_vars

\* C14's case: with warnings disabled an add_warning was made after something
\* had been recorded, and an add_failure was made too.
C14_Witness ==
    \E i, j \in DOMAIN calls :
        /\ calls[i].op = "add_warning" /\ ~calls[i].warnings
        /\ ~calls[i].recorded
        /\ calls[j].op = "add_failure" /\ ~calls[j].warnings
        /\ calls[j].recorded
        /\ j < i

-----------------------------------------------------------------------------
(* Claims on the renderings and on the round trip, checked under SpecRender *)

\* The rows of a rendered table: <<test, status>> of every line that has a
\* status, the header left out
RowsOf(file) ==
    LET piped == SelectSeq(file, LAMBDA l : Len(l) >= 4)
        data == SelectSeq(Tail(piped), LAMBDA l : l[3] # <<>>)
    IN  [ i \in DOMAIN data |-> <<Text(data[i][2]), Text(data[i][3])>> ]

\* The place of a status in the table: failures, warnings, successes
GroupRank(status) ==
    CASE status = FAILURE -> 1 [] status = WARNING -> 2 [] status = SUCCESS -> 3

\* The names a Report holds for each status and the tags of every name
Classification(r) ==
    [ failure |-> DOMAIN r.failure, warning |-> DOMAIN r.warning,
      success |-> Range(r.success), tags |-> r.tags ]

\* C15: for every Report reachable by record calls, read_report applied to
\* the table produced by generate() yields a Report whose failure, warning
\* and success name sets and whose per-name tag sets equal the original's.
C15_RoundTrip ==
    ( /\ Len(calls) >= 2
      /\ LastCall.op = "read_report"
      /\ calls[Len(calls) - 1].op = "generate"
      /\ calls[Len(calls) - 1].err = None )
    => /\ in_report.err = None
       /\ Classification(in_report.rep) = Classification(report)

\* C17: generate() orders rows failures first, then warnings, then successes,
\* each group sorted by check name ascending, for every reachable Report.
C17_RowOrder ==
    report_file # None
    => LET rows == RowsOf(report_file)
       IN  \A i, j \in DOMAIN rows :
              i < j =>
                /\ GroupRank(rows[i][2]) <= GroupRank(rows[j][2])
                /\ rows[i][2] = rows[j][2]
                   => Rank(rows[i][1]) <= Rank(rows[j][1])

\* C17's case: generate() has rendered two successes that were recorded in
\* descending order of their names.
C17_Witness ==
    /\ Len(calls) > 0 /\ LastCall.op = "generate"
    /\ report.success = <<"B", "A">>
    /\ RowsOf(report_file) = << <<"A", SUCCESS>>, <<"B", SUCCESS>> >>

\* The step made is one of the three renderings
Rendered == Called("generate") \/ Called("gen_json") \/ Called("code_list")

\* C18: rendering does not mutate the Report: after generate(), gen_json()
\* or code_list() every field of the Report, including hostname and
\* host_state, equals its value before the call.
C18_RenderingMutatesNothing ==
    [][ Rendered => report' = report ]_vars

\* C18 amended: generate() and gen_json() set hostname to the host's name
\* when it is unset and leave every other field as it was; code_list()
\* leaves every field as it was.
C18_RenderingStampsHostnameOnly ==
    [][ /\ Rendered
           => /\ [report' EXCEPT !.hostname = report.hostname] = report
              /\ report'.hostname \in {report.hostname, gethostname}
        /\ (Called("generate") \/ Called("gen_json"))
           => report'.hostname =
                 IF report.hostname = None THEN gethostname ELSE report.hostname
        /\ Called("code_list") => report' = report
      ]_vars

\* C18's case: a Report with recorded entries was rendered by generate()
\* twice (the second time with the hostname set) and by code_list().
C18_Witness ==
    /\ Len(calls) = 3
    /\ calls[1].op = "add_failure"
    /\ calls[2].op = "generate"
    /\ calls[3].op \in {"generate", "code_list", "gen_json"}
    /\ report.hostname = gethostname
    /\ report.failure # EmptyDict

-----------------------------------------------------------------------------
(* Claims on read_report, checked under SpecRead *)

\* A line with a pipe
Piped(line) == Len(line) >= 2

\* The file without its pipe-bearing lines that do not have the five
\* interior fields, the first pipe-bearing line (the header) kept
RECURSIVE WithoutMalformed(_, _)
WithoutMalformed(file, header_seen) ==
    IF file = <<>> THEN <<>>
    ELSE LET l == file[1]
             rest == WithoutMalformed(Tail(file), header_seen \/ Piped(l))
         IN  IF Piped(l) /\ header_seen /\ Len(l) # 7 THEN rest
             ELSE <<l>> \o rest

\* C16: read_report recovers from a pipe-bearing line that does not have the
\* expected column shape by skipping that line: it raises no error and goes
\* on to parse the remaining lines.
C16_MalformedLineSkipped ==
    (Len(calls) > 0 /\ LastCall.op = "read_report")
    => /\ in_report.err = None
       /\ in_report = read_report(WithoutMalformed(report_file, FALSE), WARNINGS)

-----------------------------------------------------------------------------
(* Claims on the selection of run_checks, checked under SpecRun *)

\* The check is to be run under the current tags / not_tags
Wanted(ck) ==
    /\ sel.tags # {} => Range(ck.tags) \cap sel.tags # {}
    /\ sel.not_tags # {} => Range(ck.tags) \cap sel.not_tags = {}

\* The places of the registry whose check is to be run
WantedPlaces == { i \in DOMAIN check_list : Wanted(check_list[i]) }

\* The k-th of these places, in registry order
WantedPlace(k) ==
    CHOOSE i \in WantedPlaces :
        Cardinality({ j \in WantedPlaces : j < i }) = k - 1

\* C19: the checks run are exactly the registered checks, in registry order,
\* that (if tags is non-empty) have at least one tag in tags and (if not_tags
\* is non-empty) have no tag in not_tags; a check carrying an excluded tag is
\* never run even if it also carries an included tag.
C19_TagSelection ==
    mainpc # "idle"
    => /\ Len(threads) <= Cardinality(WantedPlaces)
       /\ mainpc \in {"join", "returned"}
          => Len(threads) = Cardinality(WantedPlaces)
       /\ \A k \in DOMAIN threads :
             LET ck == check_list[WantedPlace(k)]
             IN  /\ threads[k].name = ck.name
                 /\ threads[k].tags = ck.tags
                 /\ threads[k].body = ck.body

\* C19's case: run_checks(tags=t1, not_tags=t2) has returned on a registry
\* of two checks, one carrying t1 only and one carrying t1 and t2; only
\* the first one was run.
C19_Witness ==
    /\ Returned
    /\ sel = [tags |-> {"t1"}, not_tags |-> {"t2"}]
    /\ Len(check_list) = 2 /\ Len(threads) = 1
    /\ \E i \in DOMAIN check_list :
          {"t1", "t2"} \subseteq Range(check_list[i].tags)

-----------------------------------------------------------------------------
(* Claims on parse_mconf, checked under SpecParse *)

Parsed == tree # None

IsSkipped(line) == line = <<>> \/ line[1][1] = "#"

\* A line ending with `{`
IsOpen(line) == ~IsSkipped(line) /\ line[Len(line)] = <<"{">>

\* A `}` line: a line ending with `}`
IsClose(line) == ~IsSkipped(line) /\ line[Len(line)] = <<"}">>

\* The braces are balanced: no closing line without an open block, and no
\* block left open
Balanced(lines) ==
    /\ \A k \in DOMAIN lines :
          Cardinality({ j \in 1..k : IsOpen(lines[j]) })
             >= Cardinality({ j \in 1..k : IsClose(lines[j]) })
    /\ Cardinality({ k \in DOMAIN lines : IsOpen(lines[k]) })
          = Cardinality({ k \in DOMAIN lines : IsClose(lines[k]) })

\* The `}` line that matches the opening line at place i
Match(lines, i) ==
    CHOOSE j \in (i + 1)..Len(lines) :
        /\ IsClose(lines[j])
        /\ Cardinality({ k \in (i + 1)..(j - 1) : IsOpen(lines[k]) })
              = Cardinality({ k \in (i + 1)..(j - 1) : IsClose(lines[k]) })
        /\ \A m \in (i + 1)..(j - 1) :
              IsClose(lines[m])
              => Cardinality({ k \in (i + 1)..(m - 1) : IsOpen(lines[k]) })
                    # Cardinality({ k \in (i + 1)..(m - 1) : IsClose(lines[k]) })

\* The tree that mirrors the brace nesting of the lines lo..hi
RECURSIVE Nesting(_, _, _)
Nesting(lines, lo, hi) ==
    IF lo > hi THEN <<>>
    ELSE LET line == lines[lo]
         IN  IF IsSkipped(line) THEN Nesting(lines, lo + 1, hi)
             ELSE IF IsOpen(line)
             THEN LET m == Match(lines, lo)
                  IN  <<Block(line[1], Nesting(lines, lo + 1, m - 1))>>
                      \o Nesting(lines, m + 1, hi)
             ELSE <<Scalar(line[1], strip(join(Tail(line))))>>
                  \o Nesting(lines, lo + 1, hi)

ConfigParseError == "ConfigParseError"

\* C21: given input with unmatched braces (a block never closed, or a `}`
\* line with no open block) parse_mconf raises or reports a parse error
\* rather than returning a silently truncated tree; lines following a stray
\* top-level `}` are not silently dropped.
C21_UnmatchedBracesReported ==
    (Parsed /\ ~Balanced(mconf)) => tree = ConfigParseError

-----------------------------------------------------------------------------
(* SpecFix: the fix ledger (common.py 320, 328-348).  A lifetime of the      *)
(* ledger is one process: fixes_run starts as the empty set (320).           *)

\* The fix functions: two of them have the same __name__
FixFns ==
    { [fn |-> 1, name |-> "fix_a"],
      [fn |-> 2, name |-> "fix_b"],
      [fn |-> 3, name |-> "fix_a"] }

\* The lists list(s) can be for a set s: each element once, in any order
ListsOf(s) == { l \in [1..Cardinality(s) -> s] : Range(l) = s }

\* FIXES_FILE when it does not exist
NoFile == [exists |-> FALSE, json |-> <<>>]

\* json.dumps of a list of names, as the content of the file, and
\* json.loads of that content
json_dumps(l) == [exists |-> TRUE, json |-> l]
json_loads(text) == text.json

\* An entry of the ledger's history: the operation, the fix function and its
\* name, whether the body was executed, the error raised, the lifetime, and
\* fixes_run after the operation
Event(op, fix, executed, err, after) ==
    [ op |-> op, fn |-> fix.fn, name |-> fix.name, executed |-> executed,
      err |-> err, lifetime |-> ledger.lifetime, after |-> after ]

NoFix == [fn |-> 0, name |-> None]

InitFix ==
    /\ report = Report
    /\ WARNINGS = TRUE
    /\ calls = <<>>
    /\ RunIdle
    /\ report_file = None
    /\ in_report = None
    /\ mconf = <<>>
    /\ tree = None
    /\ ledger = [fixes_run |-> {}, file |-> NoFile, lifetime |-> 1,
                 events |-> <<>>]
    /\ parser = None
    /\ arp = None
    /\ iscsi = None

fixFrame == <<report, WARNINGS, calls, runVars, report_file, in_report, mconf,
              tree, parser, arp, iscsi>>

\* Variant of already_run: the ledger is not consulted.
already_run_never(fixes_run, fix) == FALSE

\* if fix.__name__ in fixes_run: return   (331-332)
already_run(fixes_run, fix) == fix.name \in fixes_run

\* idempotent's _wrapper (330-334); the body fix() returns or raises
Invoke(fix, raises) ==
    /\ Len(ledger.events) < MaxEvents
    /\ IF already_run(ledger.fixes_run, fix)
       THEN ledger' = [ledger EXCEPT !.events =
                Append(@, Event("invoke", fix, FALSE, None, ledger.fixes_run))]
       ELSE IF raises
       THEN ledger' = [ledger EXCEPT !.events =
                Append(@, Event("invoke", fix, TRUE, "Error", ledger.fixes_run))]
       ELSE LET after == ledger.fixes_run \cup {fix.name}
            IN  ledger' = [ledger EXCEPT
                    !.fixes_run = after,
                    !.events = Append(@, Event("invoke", fix, TRUE, None, after))]
    /\ UNCHANGED fixFrame

\* Variant of saved_text: an empty list is written.
saved_text_empty(l) == json_dumps(<<>>)

\* j = json.dumps(list(fixes_run))   (346)
saved_text(l) == json_dumps(l)

\* save_run_fixes (345-348)
Save ==
    /\ Len(ledger.events) < MaxEvents
    /\ \E l \in ListsOf(ledger.fixes_run) :
          ledger' = [ledger EXCEPT
              !.file = saved_text(l),
              !.events = Append(@, Event("save", NoFix, FALSE, None,
                                         ledger.fixes_run))]
    /\ UNCHANGED fixFrame

\* load_run_fixes (339-342); io.open raises when the file does not exist
Load ==
    /\ Len(ledger.events) < MaxEvents
    /\ IF ~ledger.file.exists
       THEN ledger' = [ledger EXCEPT !.events =
                Append(@, Event("load", NoFix, FALSE, "IOError", ledger.fixes_run))]
       ELSE LET after == ledger.fixes_run \cup Range(json_loads(ledger.file))
            IN  ledger' = [ledger EXCEPT
                    !.fixes_run = after,
                    !.events = Append(@, Event("load", NoFix, FALSE, None, after))]
    /\ UNCHANGED fixFrame

\* The process ends and a new one starts: fixes_run = set() (320); the file
\* stays
NewLifetime ==
    /\ Len(ledger.events) < MaxEvents
    /\ ledger.lifetime < MaxLifetimes
    /\ ledger' = [ fixes_run |-> {}, file |-> ledger.file,
                   lifetime |-> ledger.lifetime + 1,
                   events |-> Append(ledger.events,
                                  [Event("start", NoFix, FALSE, None, {})
                                     EXCEPT !.lifetime = ledger.lifetime + 1]) ]
    /\ UNCHANGED fixFrame

NextFix ==
    \/ \E fix \in FixFns, raises \in BOOLEAN : Invoke(fix, raises)
    \/ Save
    \/ Load
    \/ NewLifetime

SpecFix == InitFix /\ [][NextFix]_vars

-----------------------------------------------------------------------------
(* Claims on the fix ledger, checked under SpecFix *)

\* The i-th operation is an invocation that executed the body to its end
Completed(i) ==
    LET e == ledger.events[i]
    IN  e.op = "invoke" /\ e.executed /\ e.err = None

\* C22: within one ledger lifetime a fix action wrapped with idempotent
\* executes its body at most once, keyed by the action's name: once an
\* invocation has completed, every later invocation of an action with that
\* name returns without executing the body.
C22_AtMostOncePerLifetime ==
    \A i, j \in DOMAIN ledger.events :
        LET e == ledger.events[i]
            f == ledger.events[j]
        IN  ( /\ i < j
              /\ Completed(i)
              /\ f.op = "invoke" /\ f.name = e.name
              /\ f.lifetime = e.lifetime )
            => (~f.executed /\ f.err = None)

\* C22's case: fix_a completed, and later in the same lifetime the other
\* function named fix_a was invoked and so was fix_b, for the first time.
C22_Witness ==
    \E i, j, k \in DOMAIN ledger.events :
        /\ i < j /\ j < k
        /\ Completed(i) /\ ledger.events[i].fn = 1
        /\ ledger.events[j].op = "invoke" /\ ledger.events[j].fn = 3
        /\ ~ledger.events[j].executed
        /\ Completed(k) /\ ledger.events[k].fn = 2
        /\ ledger.events[k].lifetime = ledger.events[i].lifetime

\* The operations i < j < k < l are: an invocation that completed, a save in
\* the same lifetime, the start of the next lifetime, and a load that comes
\* first in it
Persisted(i, j, k, l) ==
    /\ i < j /\ j < k /\ l = k + 1
    /\ Completed(i)
    /\ ledger.events[j].op = "save"
    /\ ledger.events[j].lifetime = ledger.events[i].lifetime
    /\ ledger.events[k].op = "start"
    /\ ledger.events[k].lifetime = ledger.events[i].lifetime + 1
    /\ ledger.events[l].op = "load"

\* The last save before the operation k
LastSave(k) ==
    CHOOSE j \in 1..(k - 1) :
        /\ ledger.events[j].op = "save"
        /\ \A h \in (j + 1)..(k - 1) : ledger.events[h].op # "save"

\* C23: if a fix action is invoked in one ledger lifetime, the ledger is
\* saved, and a new lifetime starts with an empty ledger followed by
\* load_run_fixes, then invoking the same action again does not execute its
\* body (the side effect happens once across the two lifetimes), and the
\* loaded ledger equals the saved set.
C23_PersistedAcrossLifetimes ==
    \A k \in DOMAIN ledger.events :
      (ledger.events[k].op = "start" /\ k < Len(ledger.events)) =>
      \A i \in 1..(k - 1) :
        LET l == k + 1
        IN  (\E j \in (i + 1)..(k - 1) : Persisted(i, j, k, l))
        => /\ ledger.events[l].err = None
           /\ ledger.events[l].after = ledger.events[LastSave(k)].after
           /\ \A h \in DOMAIN ledger.events :
                 ( /\ h > i /\ h # l
                   /\ ledger.events[h].op = "invoke"
                   /\ ledger.events[h].name = ledger.events[i].name
                   /\ ledger.events[h].lifetime <= ledger.events[l].lifetime )
                 => ~ledger.events[h].executed

\* C23's case: fix_a completed, the ledger was saved, a new lifetime started
\* and loaded it, and fix_a was invoked again.
C23_Witness ==
    /\ Len(ledger.events) = 5
    /\ Persisted(1, 2, 3, 4)
    /\ ledger.events[5].op = "invoke"
    /\ ledger.events[5].name = ledger.events[1].name
    /\ ~ledger.events[5].executed
    /\ ledger.fixes_run = {ledger.events[1].name}

-----------------------------------------------------------------------------
(* SpecHost: a sequence of add_host_state calls on the Report *)

HostKeys == {"hostname", "k1", "k2"}
HostValues == {"v1", "v2"}

\* hs(k, v) (498-499): report.add_host_state(k, v)
AddHostState(key, value) ==
    /\ Len(calls) < MaxCalls
    /\ LET res == add_host_state(report, key, value)
       IN  /\ report' = res.rep
           /\ calls' = Append(calls,
                  [ op |-> "add_host_state", key |-> key, value |-> value,
                    err |-> res.err ])
    /\ UNCHANGED <<WARNINGS, runVars, ioVars>>

NextHost == \E key \in HostKeys, value \in HostValues : AddHostState(key, value)

SpecHost == Init /\ [][NextHost]_vars

\* The last call that set the key
LastSet(key) ==
    calls[CHOOSE i \in DOMAIN calls :
            /\ calls[i].key = key
            /\ \A j \in DOMAIN calls : calls[j].key = key => j <= i]

\* C24: add_host_state is an upsert: after any sequence of calls with
\* arbitrary keys, host_state is a mapping that holds for every key set so
\* far the value of the most recent call for that key, and the host
\* identifier is stamped from the first call on.
C24_HostStateUpsert ==
    calls # <<>>
    => /\ report.hostname = gethostname
       /\ ~IsStr(report.host_state)
       /\ \A i \in DOMAIN calls :
             /\ calls[i].err = None
             /\ calls[i].key \in DOMAIN report.host_state
             /\ report.host_state[calls[i].key] = LastSet(calls[i].key).value

-----------------------------------------------------------------------------
(* Claims on continuation rows, checked under SpecRead *)

\* The places of the file's data rows: the pipe-bearing lines after the
\* first one
DataRows(file) ==
    { i \in DOMAIN file :
        Piped(file[i]) /\ \E j \in 1..(i - 1) : Piped(file[j]) }

\* A data row that starts a check's entry: its status field is not empty
IsPrimary(line) == Len(line) = 7 /\ line[3] # <<>>

\* The primary rows of the file with the test name n and the status s
PrimaryRows(file, n, s) ==
    { i \in DataRows(file) :
        IsPrimary(file[i]) /\ Text(file[i][2]) = n /\ Text(file[i][3]) = s }

\* C25: in read_report a data row whose status/test field is empty is a
\* continuation of the previous row: the last seen status and test name are
\* carried forward, so all lines of a multi-line cell are attributed to the
\* same check name with the same classification, and the reconstructed
\* Report gains no additional check name or duplicate success entry from
\* continuation lines.
C25_ContinuationRows ==
    (Len(calls) > 0 /\ LastCall.op = "read_report" /\ in_report.err = None)
    => LET r == in_report.rep
           Primary(s) ==
               { Text(report_file[i][2]) :
                   i \in { j \in DataRows(report_file) :
                             /\ IsPrimary(report_file[j])
                             /\ Text(report_file[j][3]) = s } }
       IN  /\ DOMAIN r.failure = Primary(FAILURE)
           /\ DOMAIN r.warning = Primary(WARNING)
           /\ Range(r.success) \subseteq Primary(SUCCESS)
           /\ \A n \in Range(r.success) :
                 Count(n, r.success)
                    <= Cardinality(PrimaryRows(report_file, n, SUCCESS))

\* ------------------------------------------------------------------------
\* mgmt_check, vip1_check, vip2_check (checkers.py 304-353): the ping and the
\* ARP-reachability poll of the three connection checks.  Each check runs in
\* its own thread (run_checks); a step is one exe_check call or the loop body
\* that follows a failed probe.
\* ------------------------------------------------------------------------

Polls == {"MGMT", "VIP1", "VIP2"}

\* The tags of the three checks (the @check decorator, 304, 322, 337)
ConnTags == <<"basic", "connection", "local">>

NET_FIX == "Check the network connection"

\* The code of the failed ping of each check (308, 326, 343)
PingCode(p) ==
    CASE p = "MGMT" -> "65FC68BB"
      [] p = "VIP1" -> "1827147B"
      [] p = "VIP2" -> "3D76CE5A"

\* The code of the ARP failure of each check (317, 332, 351)
ArpCode(p) ==
    CASE p = "MGMT" -> "BF6A912A"
      [] p = "VIP1" -> "3C33D70D"
      [] p = "VIP2" -> "4F6B8D91"

\* The fix recorded with the ARP failure: mgmt_check alone passes one (316)
ArpFix(p) == IF p = "MGMT" THEN "Check the connection" ELSE None

\* `timeout = 5` (310, 327, 345)
ArpTimeout == 5

\* Variant of the loop's exit test: the poll gives up when the counter
\* reaches zero.
expired_at_zero(timeout) == timeout < 1

\* `if timeout < 0:` (315, 331, 349)
expired(timeout) == timeout < 0

\* The state of one check: where it stands, its counter, and the results of
\* the probes made so far (TRUE: the neighbour entry is REACHABLE).
Poll(pc, timeout, results) ==
    [pc |-> pc, timeout |-> timeout, results |-> results]

\* The three checks at their first statement; config holds a vip2_ip or not.
InitArp ==
    /\ report = Report
    /\ WARNINGS = TRUE
    /\ calls = <<>>
    /\ RunIdle
    /\ report_file = None
    /\ in_report = None
    /\ mconf = <<>>
    /\ tree = None
    /\ ledger = None
    /\ parser = None
    /\ iscsi = None
    /\ \E vip2 \in {None, "ip"} :
          arp = [ vip2_ip |-> vip2,
                  polls |-> [p \in Polls |-> Poll("ping", 0, <<>>)] ]

arpFrame == <<WARNINGS, calls, runVars, report_file, in_report, mconf, tree,
              ledger, parser, iscsi>>

\* The statements before the loop (306-310, 324-327, 339-345): vip2_check
\* warns when there is no vip2_ip and pings only when there is one; a failed
\* ping is recorded as a failure; then `timeout = 5`.
Ping(p, ok) ==
    /\ arp.polls[p].pc = "ping"
    /\ LET missing == p = "VIP2" /\ arp.vip2_ip = None
           r1 == IF missing
                 THEN add_warning(report, WARNINGS, p, "No vip2_ip found",
                                  "16EB208B", ConnTags, None).rep
                 ELSE report
           r2 == IF ~missing /\ ~ok
                 THEN add_failure(r1, p, "Could not ping", PingCode(p),
                                  ConnTags, NET_FIX).rep
                 ELSE r1
       IN  report' = r2
    /\ arp' = [arp EXCEPT !.polls[p] = Poll("while", ArpTimeout, <<>>)]
    /\ UNCHANGED arpFrame

\* The loop's condition (311, 328, 346): one exe_check of the neighbour
\* table; the loop is left when the probe succeeds.
Probe(p, ok) ==
    /\ arp.polls[p].pc = "while"
    /\ arp' = [arp EXCEPT !.polls[p] =
                  Poll(IF ok THEN "done" ELSE "body", @.timeout,
                       Append(@.results, ok))]
    /\ UNCHANGED <<report, arpFrame>>

\* The loop's body (313-319, 329-334, 347-353): the counter is decremented,
\* the thread sleeps a second, and when the counter has expired the ARP
\* failure is recorded and the loop is left.
Body(p) ==
    /\ arp.polls[p].pc = "body"
    /\ LET timeout == arp.polls[p].timeout - 1
       IN  IF expired(timeout)
           THEN /\ report' = add_failure(report, p, "Arp state is not REACHABLE",
                                         ArpCode(p), ConnTags, ArpFix(p)).rep
                /\ arp' = [arp EXCEPT !.polls[p] =
                              Poll("done", timeout, @.results)]
           ELSE /\ report' = report
                /\ arp' = [arp EXCEPT !.polls[p] =
                              Poll("while", timeout, @.results)]
    /\ UNCHANGED arpFrame

NextArp ==
    \E p \in Polls :
        \/ \E ok \in BOOLEAN : Ping(p, ok)
        \/ \E ok \in BOOLEAN : Probe(p, ok)
        \/ Body(p)

\* Every exe_check and every sleep returns, and every thread is scheduled.
SpecArp == InitArp /\ [][NextArp]_vars /\ WF_vars(NextArp)

\* How often the ARP failure of the check is recorded in the Report
ArpRecorded(p) ==
    IF p \in DOMAIN report.failure_id
    THEN Count(ArpCode(p), report.failure_id[p])
    ELSE 0

Probes(p) == Len(arp.polls[p].results)

AllFailed(p) == \A i \in DOMAIN arp.polls[p].results : ~arp.polls[p].results[i]

PollDone(p) == arp.polls[p].pc = "done"

\* The poll of one check at any moment: at most 6 probes; left at the first
\* successful probe with no ARP failure recorded; the ARP failure recorded
\* once, after 6 failed probes and no sooner, and the loop left with it.
PollBounded(p) ==
    LET res == arp.polls[p].results
    IN  /\ Probes(p) <= ArpTimeout + 1
        /\ \A i \in DOMAIN res : res[i] => (i = Len(res) /\ PollDone(p))
        /\ ArpRecorded(p) <= 1
        /\ ArpRecorded(p) = 1
              <=> (PollDone(p) /\ AllFailed(p) /\ Probes(p) = ArpTimeout + 1)
        /\ PollDone(p) =>
              \/ res[Len(res)] /\ ArpRecorded(p) = 0
              \/ AllFailed(p) /\ Probes(p) = ArpTimeout + 1

\* C26: the ARP-reachability poll in mgmt_check, vip1_check and vip2_check
\* bounds its own worst case: for every sequence of probe results it
\* terminates after at most 6 probes, exits without recording the ARP failure
\* as soon as one probe succeeds, and after 6 consecutive failed probes
\* records the ARP failure exactly once and stops.
C26_ArpPollBounded ==
    /\ [](\A p \in Polls : PollBounded(p))
    /\ <>[](\A p \in Polls : PollDone(p))

\* One check left its loop at a successful probe, another one after six
\* failed probes with its ARP failure recorded.
C26_Witness ==
    \E p, q \in Polls :
        /\ PollDone(p) /\ ~AllFailed(p) /\ ArpRecorded(p) = 0
        /\ PollDone(q) /\ AllFailed(q) /\ Probes(q) = 6 /\ ArpRecorded(q) = 1

\* ------------------------------------------------------------------------
\* check_iscsi (checkers.py 64-108)
\* ------------------------------------------------------------------------

IscsiTags == <<"basic", "iscsi", "local">>

noopt == "node.session.timeo.noop_out_timeout"

noopi == "node.session.timeo.noop_out_interval"

\* The lines of iscsid.conf, as their words: each option set to 2 and to
\* another value, and a line that names neither option.
IscsiLines ==
    { <<noopt, "=", "2">>, <<noopt, "=", "5">>,
      <<noopi, "=", "2">>, <<noopi, "=", "5">>,
      <<"node.startup", "=", "manual">> }

IscsiConfsUpTo(n) == UNION { [1..k -> IscsiLines] : k \in 0..n }

\* `word in line` on a line of words, for a word that spans no blank
Contains(line, word) == \E i \in DOMAIN line : line[i] = word

\* The line number in a warning's text
Digits == <<"0", "1", "2", "3", "4", "5", "6", "7", "8", "9">>

str(n) == IF n < 10 THEN Digits[n + 1] ELSE Digits[(n \div 10) + 1] \o Digits[(n % 10) + 1]

\* ff and wf inside check_iscsi (common.py 481-495)
iscsi_ff(r, reason, uid, fix) == add_failure(r, "ISCSI", reason, uid, IscsiTags, fix).rep

iscsi_wf(r, warnings, reason, uid) ==
    add_warning(r, warnings, "ISCSI", reason, uid, IscsiTags, None).rep

\* The state of the scan (84-87): the Report and the two flags
Scan(r, t, i) == [rep |-> r, noopt_found |-> t, noopi_found |-> i]

\* One iteration of the loop over enumerate(iconf) (88-104); index counts
\* from 0.
scan_line(st, warnings, index, line) ==
    LET t == IF ~st.noopt_found /\ Contains(line, noopt)
             THEN Scan(IF ~Contains(line, "2")
                       THEN iscsi_ff(st.rep, noopt \o " is not set to '2' in iscsid.conf",
                                     "F6A49337", None)
                       ELSE st.rep,
                       TRUE, st.noopi_found)
             ELSE IF st.noopt_found /\ Contains(line, noopt)
             THEN Scan(iscsi_wf(st.rep, warnings,
                                noopt \o " duplicate found in iscsid.conf, line "
                                   \o str(index),
                                "D3E55910"),
                       st.noopt_found, st.noopi_found)
             ELSE st
    IN  IF Contains(line, noopi)
        THEN Scan(IF ~Contains(line, "2")
                  THEN iscsi_ff(t.rep, noopi \o " is not set to '2' in iscsid.conf",
                                "E48C1907", None)
                  ELSE t.rep,
                  t.noopt_found, TRUE)
        ELSE IF t.noopi_found /\ Contains(line, noopi)
        THEN Scan(iscsi_wf(t.rep, warnings,
                           noopi \o " duplicate found in iscsid.conf, line "
                              \o str(index),
                           "CA9AA865"),
                  t.noopt_found, t.noopi_found)
        ELSE t

RECURSIVE scan(_, _, _, _)
\* The loop over the lines from position i on (88-104)
scan(st, warnings, iconf, i) ==
    IF i > Len(iconf) THEN st
    ELSE scan(scan_line(st, warnings, i - 1, iconf[i]), warnings, iconf, i + 1)

\* check_iscsi(config): env holds what the host answers (is iscsiadm there,
\* get_os(), is iscsid running, does iscsid.conf exist, its lines).  `fix` is
\* bound for ubuntu and centos only (68-71).
check_iscsi(r, warnings, env) ==
    LET unbound == ~env.which /\ env.os \notin {"ubuntu", "centos"}
        r1 == IF ~env.which
              THEN iscsi_ff(r, "iscsiadm is not available", "EFBB085C",
                            IF env.os = "ubuntu" THEN "apt-get install open-iscsi"
                            ELSE "yum install iscsi-initiator-utils")
              ELSE r
        r2 == IF ~env.ps
              THEN iscsi_ff(r1, "iscsid is not running", "EB22737E",
                            "service iscsi start || systemctl start iscsid.service")
              ELSE r1
        st == scan(Scan(r2, FALSE, FALSE), warnings, env.iconf, 1)
        r3 == IF ~st.noopt_found
              THEN iscsi_ff(st.rep, "'" \o noopt \o " = 2' is not present in iscsid.conf",
                            "E29BF18A", None)
              ELSE st.rep
        r4 == IF ~st.noopi_found
              THEN iscsi_ff(r3, "'" \o noopi \o " = 2' is not present in iscsid.conf",
                            "A2EED511", None)
              ELSE r3
    IN  IF unbound THEN Raised(r, "UnboundLocalError")
        ELSE IF ~env.exists
        THEN Ok(iscsi_ff(r2, "iscsid configuration file does not exist",
                         "C6F2B356", None))
        ELSE Ok(r4)

\* A host before check_iscsi runs on it
InitIscsi ==
    /\ report = Report
    /\ WARNINGS = TRUE
    /\ calls = <<>>
    /\ RunIdle
    /\ report_file = None
    /\ in_report = None
    /\ mconf = <<>>
    /\ tree = None
    /\ ledger = None
    /\ parser = None
    /\ arp = None
    /\ \E which \in BOOLEAN, os \in {"ubuntu", "centos", "centos7"},
          ps \in BOOLEAN, exists \in BOOLEAN,
          iconf \in IscsiConfsUpTo(MaxIscsiLines) :
          iscsi = [ which |-> which, os |-> os, ps |-> ps, exists |-> exists,
                    iconf |-> IF exists THEN iconf ELSE <<>>,
                    done |-> FALSE, err |-> None ]

CheckIscsi ==
    /\ ~iscsi.done
    /\ LET res == check_iscsi(report, WARNINGS, iscsi)
       IN  /\ report' = res.rep
           /\ iscsi' = [iscsi EXCEPT !.done = TRUE, !.err = res.err]
    /\ UNCHANGED <<WARNINGS, calls, runVars, report_file, in_report, mconf,
                   tree, ledger, parser, arp>>

SpecIscsi == InitIscsi /\ [][CheckIscsi]_vars

\* The positions of the lines of iscsid.conf that name the option
Occurrences(opt) == { i \in DOMAIN iscsi.iconf : Contains(iscsi.iconf[i], opt) }

\* How often the code is recorded under ISCSI in a by-name id list
Recorded(ids, code) ==
    IF "ISCSI" \in DOMAIN ids THEN Count(code, ids["ISCSI"]) ELSE 0

\* The first occurrence of the option is value-checked and every later one
\* records the duplicate warning
FirstCheckedRestDuplicates(opt, bad, dup) ==
    LET occ == Occurrences(opt)
        first == CHOOSE i \in occ : \A j \in occ : i <= j
    IN  occ # {} =>
           /\ Recorded(report.failure_id, bad)
                 = (IF Contains(iscsi.iconf[first], "2") THEN 0 ELSE 1)
           /\ Recorded(report.warning_id, dup) = Cardinality(occ) - 1

\* C27: in check_iscsi's scan of iscsid.conf lines, for each of the two
\* options noop_out_timeout and noop_out_interval the first occurrence is
\* value-checked and every later occurrence of the same option records a
\* duplicate warning (D3E55910 for noop_out_timeout, CA9AA865 for
\* noop_out_interval), for any number of occurrences including three or more.
C27_DuplicateOptionsWarned ==
    (iscsi.done /\ iscsi.err = None /\ iscsi.exists)
    => /\ FirstCheckedRestDuplicates(noopt, "F6A49337", "D3E55910")
       /\ FirstCheckedRestDuplicates(noopi, "E48C1907", "CA9AA865")

\* The same statement for noop_out_timeout alone
C27_TimeoutDuplicatesWarned ==
    (iscsi.done /\ iscsi.err = None /\ iscsi.exists)
    => FirstCheckedRestDuplicates(noopt, "F6A49337", "D3E55910")

\* ------------------------------------------------------------------------
\* parse_mconf (common.py 424-441) one loop iteration at a time: the calls of
\* _helper in progress are a stack of frames, the iterator they share is one
\* cursor into the lines.
\* ------------------------------------------------------------------------

\* A call of _helper in progress: the key its result will be stored under
\* (empty for the outermost call), the place of the iterator when it was
\* called, and its `result` list so far.  parser.result is what the
\* outermost call returned.
Frame(key, at, result) == [key |-> key, at |-> at, result |-> result]

\* Variant of the iterator's sharing: every call of _helper iterates over a
\* copy of the iterator, so the caller goes on where it made the call.
resume_own_copy(at, cursor) == at

\* The place of the iterator in the caller when a call of _helper returns:
\* `lines` is one iterator object passed down (434, 441), so the caller goes
\* on where the callee stopped.
resume(at, cursor) == cursor

InitParser ==
    /\ report = Report
    /\ WARNINGS = TRUE
    /\ calls = <<>>
    /\ RunIdle
    /\ report_file = None
    /\ in_report = None
    /\ mconf \in ConfsUpTo(MaxConfLines)
    /\ tree = None
    /\ ledger = None
    /\ arp = None
    /\ iscsi = None
    /\ parser = [ cursor |-> 1, stack |-> <<Frame(<<>>, 1, <<>>)>>,
                  consumed |-> <<>>, done |-> FALSE, result |-> <<>> ]

parserFrame == <<report, WARNINGS, calls, runVars, report_file, in_report,
                 mconf, tree, ledger, arp, iscsi>>

\* The innermost call fetches the next line
Fetching == ~parser.done /\ parser.cursor <= Len(mconf)

\* next(lines): the line at the cursor is consumed by the innermost call
Consume(stack) ==
    [parser EXCEPT !.cursor = @ + 1, !.stack = stack,
                   !.consumed = Append(@, <<parser.cursor, Len(parser.stack)>>)]

\* `return result` (439) of the innermost call: the outermost call's result
\* is parse_mconf's; another call's result is appended with its key to the
\* caller's list (434)
HelperReturn(p) ==
    LET n == Len(p.stack)
        top == p.stack[n]
    IN  IF n = 1
        THEN parser' = [p EXCEPT !.done = TRUE, !.result = top.result]
        ELSE parser' =
                [p EXCEPT !.cursor = resume(top.at, p.cursor),
                          !.stack = [ i \in 1..(n - 1) |->
                              IF i = n - 1
                              THEN Frame(p.stack[i].key, p.stack[i].at,
                                         Append(p.stack[i].result,
                                                Block(top.key, top.result)))
                              ELSE p.stack[i] ]]

\* A blank line or a comment: `continue` (431-432)
ParserSkip ==
    /\ Fetching
    /\ IsSkipped(mconf[parser.cursor]) = TRUE
    /\ parser' = Consume(parser.stack)
    /\ UNCHANGED parserFrame

\* A line that ends with `{`: _helper is called on the same iterator (433-435)
ParserOpen ==
    /\ Fetching
    /\ LET line == mconf[parser.cursor]
       IN  /\ ~IsSkipped(line)
           /\ line[Len(line)] = <<"{">>
           /\ parser' = Consume(Append(parser.stack,
                                       Frame(line[1], parser.cursor + 1, <<>>)))
    /\ UNCHANGED parserFrame

\* A line that ends with `}`: `break`, and the call returns (436-437, 439)
ParserClose ==
    /\ Fetching
    /\ LET line == mconf[parser.cursor]
       IN  /\ ~IsSkipped(line)
           /\ line[Len(line)] # <<"{">>
           /\ line[Len(line)] = <<"}">>
    /\ HelperReturn(Consume(parser.stack))
    /\ UNCHANGED parserFrame

\* Any other line: the key and the joined, stripped rest are appended (438)
ParserKeyValue ==
    /\ Fetching
    /\ LET line == mconf[parser.cursor]
       IN  /\ ~IsSkipped(line)
           /\ line[Len(line)] # <<"{">>
           /\ line[Len(line)] # <<"}">>
           /\ parser' = Consume(
                  [parser.stack EXCEPT ![Len(parser.stack)].result =
                      Append(@, Scalar(line[1], strip(join(Tail(line)))))])
    /\ UNCHANGED parserFrame

\* The iterator is exhausted: the loop of the innermost call ends and the
\* call returns (428, 439)
ParserExhausted ==
    /\ ~parser.done
    /\ parser.cursor > Len(mconf)
    /\ HelperReturn(parser)
    /\ UNCHANGED parserFrame

NextParser ==
    \/ ParserSkip
    \/ ParserOpen
    \/ ParserClose
    \/ ParserKeyValue
    \/ ParserExhausted

\* The interpreter goes on executing the loop
SpecParser == InitParser /\ [][NextParser]_vars /\ WF_vars(NextParser)

\* The step-wise parser returns what _helper returns
ParserAgrees == parser.done => parser.result = parse_mconf(mconf)

\* No line is consumed twice, by the same call or by two calls
ConsumedOnce ==
    \A i, j \in DOMAIN parser.consumed :
        parser.consumed[i][1] = parser.consumed[j][1] => i = j

\* C28: parse_mconf terminates on every finite input text, for any nesting
\* depth and any mix of blank, comment, `{`, `}` and key/value lines, and the
\* shared line cursor consumes each input line at most once (no line is
\* parsed at two nesting levels).
C28_TerminatesConsumingOnce ==
    /\ <>[](parser.done)
    /\ [](ConsumedOnce /\ Len(parser.consumed) <= Len(mconf))

\* A text with a block inside a block, a key/value line in the inner one,
\* parsed to the end with all its lines consumed
C28_Witness ==
    /\ parser.done
    /\ Len(parser.consumed) = Len(mconf)
    /\ \E i \in DOMAIN parser.consumed : parser.consumed[i][2] = 3

\* ------------------------------------------------------------------------
\* Every launched check is classified (SpecRun)
\* ------------------------------------------------------------------------

\* C29: after run_checks returns, every check that was launched has a
\* terminal classification in the Report: its name is in the success list,
\* the warning map or the failure map, including when the check body raised
\* an error before recording anything.
C29_EveryLaunchedCheckClassified ==
    Returned => \A t \in DOMAIN threads : Classified(threads[t].name)

\* The same statement for the checks whose body returned
C29_ReturnedChecksClassified ==
    Returned => \A t \in DOMAIN threads :
                    ~BodyRaised(t) => Classified(threads[t].name)

\* ------------------------------------------------------------------------
\* The reasons cell of a rendered row (SpecRender)
\* ------------------------------------------------------------------------

\* The lines of the Reasons cell of the row of name n with status s in a
\* rendered table, blank lines left out: the row's first line and the lines
\* that continue it up to the next border
CellLines(file, n, s) ==
    LET start == CHOOSE i \in DataRows(file) :
                     Text(file[i][2]) = n /\ Text(file[i][3]) = s
        block == { j \in DOMAIN file :
                     /\ j >= start
                     /\ \A k \in start..j :
                           Piped(file[k]) /\ (k > start => file[k][3] = <<>>) }
        lines == [ j \in 1..Cardinality(block) |-> Text(file[start + j - 1][4]) ]
    IN  SelectSeq(lines, LAMBDA l : l # "")

\* What the first k calls recorded under the name n with the operation op:
\* each reason with its code, followed by the fix given with it
RECURSIVE RecordedUnder(_, _, _)
RecordedUnder(op, n, k) ==
    IF k = 0 THEN <<>>
    ELSE LET c == calls[k]
         IN  RecordedUnder(op, n, k - 1)
             \o (IF c.op = op /\ c.name = n /\ c.recorded
                 THEN <<format_issue(c.reason, c.uid)>>
                      \o (IF c.fix # None THEN <<format_fix(c.fix, c.uid)>>
                          ELSE <<>>)
                 ELSE <<>>)

\* C30: in the table produced by generate(), the row of each failing or
\* warning check name shows exactly the reasons that were recorded under
\* that name, in the order recorded, each followed by the fix recorded with
\* it if any, also when the same code was recorded more than once (under the
\* same name or under another name).
C30_RowShowsRecordedReasons ==
    (Len(calls) > 0 /\ LastCall.op = "generate" /\ LastCall.err = None)
    => \A n \in Names :
          /\ n \in DOMAIN report.failure
                => CellLines(report_file, n, FAILURE)
                      = RecordedUnder("add_failure", n, Len(calls))
          /\ n \in DOMAIN report.warning
                => CellLines(report_file, n, WARNING)
                      = RecordedUnder("add_warning", n, Len(calls))

\* The same statement for the Reports in which no code was recorded twice
C30_RowShowsReasonsOfDistinctCodes ==
    (/\ Len(calls) > 0 /\ LastCall.op = "generate" /\ LastCall.err = None
     /\ \A i, j \in DOMAIN calls :
           (i # j /\ calls[i].recorded /\ calls[j].recorded
              /\ calls[i].op # "add_success" /\ calls[j].op # "add_success")
           => calls[i].uid # calls[j].uid)
    => \A n \in Names :
          /\ n \in DOMAIN report.failure
                => CellLines(report_file, n, FAILURE)
                      = RecordedUnder("add_failure", n, Len(calls))
          /\ n \in DOMAIN report.warning
                => CellLines(report_file, n, WARNING)
                      = RecordedUnder("add_warning", n, Len(calls))

\* ------------------------------------------------------------------------
\* The Report's bookkeeping under sequential record calls (Spec)
\* ------------------------------------------------------------------------

\* For each name the reason list and the code list have equal length
ListsAligned ==
    /\ DOMAIN report.failure = DOMAIN report.failure_id
    /\ DOMAIN report.warning = DOMAIN report.warning_id
    /\ \A n \in DOMAIN report.failure :
          Len(report.failure[n]) = Len(report.failure_id[n])
    /\ \A n \in DOMAIN report.warning :
          Len(report.warning[n]) = Len(report.warning_id[n])

\* Every code of a per-name code list is a key of its by-id index
CodesIndexed ==
    /\ \A n \in DOMAIN report.failure_id :
          Range(report.failure_id[n]) \subseteq DOMAIN report.failure_by_id
    /\ \A n \in DOMAIN report.warning_id :
          Range(report.warning_id[n]) \subseteq DOMAIN report.warning_by_id

\* Every classified name has an entry in tags
NamesTagged ==
    Range(report.success) \cup DOMAIN report.warning \cup DOMAIN report.failure
        \subseteq DOMAIN report.tags

\* C31: in every Report state reachable by sequential record calls, for each
\* name the reason list and the code list have equal length, every code in a
\* per-name code list is a key of the corresponding by-id index, and every
\* name in success, warning or failure has an entry in tags, so generate()
\* never looks up a missing key.
C31_ReportBookkeeping ==
    /\ ListsAligned
    /\ CodesIndexed
    /\ NamesTagged
    /\ generate(report).err = None

\* The same statement without the tags entries
C31_ListsAlignedAndIndexed == ListsAligned /\ CodesIndexed

RecordOps == {"add_success", "add_warning", "add_failure"}

\* C32: add_success, add_warning and add_failure complete without raising
\* for every check name and every tag collection, on an empty or a populated
\* Report, including when the check name is equal to one of the supplied
\* tags.
C32_RecordCallsNeverRaise ==
    \A i \in DOMAIN calls : calls[i].op \in RecordOps => calls[i].err = None

\* The same statement for the calls whose name is none of the supplied tags,
\* and for those whose name has a tags entry already
C32_RaisesOnlyOnNameAmongTags ==
    \A i \in DOMAIN calls :
        (calls[i].op \in RecordOps /\ calls[i].name \notin Range(calls[i].tags))
        => calls[i].err = None

\* ------------------------------------------------------------------------
\* load_plugin_checks, run_checks with plugins and print_tags
\* (checkers.py 380-416): the calls a process makes one after the other
\* ------------------------------------------------------------------------

\* check_list as the module leaves it when imported (357-377): one built-in
\* check stands for them
BuiltinChecks == << Check("A", <<"t1">>, <<Op("ff", S1)>>) >>

\* check_load(): the plugins found, each with the checks its load_checks()
\* returns
Plugs == [ p \in {"p1"} |-> << Check("B", <<"t1", "t2">>, <<Op("wf", S2)>>) >> ]

\* The `plugins` arguments: none, a plugin that exists, one that does not
PluginArgs == { <<>>, <<"p1">>, <<"px">> }

\* check_list.extend(plugs[plugin].load_checks()) (387)
extend(list, checks) == list \o checks

\* load_plugin_checks (380-387): the registry it leaves, and whether it left
\* through sys.exit(1) at an unrecognized plugin
RECURSIVE load_plugin_checks(_, _)
load_plugin_checks(list, plugins) ==
    IF plugins = <<>> THEN [list |-> list, exit |-> FALSE]
    ELSE IF Head(plugins) \notin DOMAIN Plugs
    THEN [list |-> list, exit |-> TRUE]
    ELSE load_plugin_checks(extend(list, Plugs[Head(plugins)]), Tail(plugins))

\* `if plugins: load_plugin_checks(plugins)` (391-392, 412-413)
with_plugins(list, plugins) ==
    IF plugins # <<>> THEN load_plugin_checks(list, plugins)
    ELSE [list |-> list, exit |-> FALSE]

\* The tags print_tags collects (414-417)
tags_of(list) == UNION { Range(list[i].tags) : i \in DOMAIN list }

\* An entry of the history: the call, its plugins, the registry it left, the
\* tags it printed and whether the process exited in it
LoadCall(op, plugins, res, tags) ==
    [ op |-> op, plugins |-> plugins, registry |-> res.list, tags |-> tags,
      exit |-> res.exit ]

InitPlugins ==
    /\ report = Report
    /\ WARNINGS = TRUE
    /\ calls = <<>>
    /\ check_list = BuiltinChecks
    /\ sel = [tags |-> {}, not_tags |-> {}]
    /\ threads = <<>>
    /\ mainpc = "idle"
    /\ joined = 0
    /\ IoIdle

\* The main thread is between two calls
BetweenCalls == mainpc \in {"idle", "returned"} /\ Len(calls) < MaxLoads

\* run_checks(config, plugins, tags, not_tags) entered (390-402): the
\* plugins are loaded, `threads` is a new list and the checks are filtered
RunChecksPlugins(plugins, tags, not_tags) ==
    /\ BetweenCalls
    /\ LET res == with_plugins(check_list, plugins)
       IN  /\ check_list' = res.list
           /\ calls' = Append(calls, LoadCall("run_checks", plugins, res, {}))
           /\ mainpc' = IF res.exit THEN "exited"
                        ELSE IF Filter(res.list, tags, not_tags) = <<>>
                        THEN "join" ELSE "start"
           /\ sel' = IF res.exit THEN sel
                     ELSE [tags |-> tags, not_tags |-> not_tags]
           /\ threads' = IF res.exit THEN threads ELSE <<>>
           /\ joined' = IF res.exit THEN joined ELSE 0
    /\ UNCHANGED <<ioVars, report, WARNINGS>>

\* print_tags(config, plugins) (411-417)
PrintTags(plugins) ==
    /\ BetweenCalls
    /\ LET res == with_plugins(check_list, plugins)
       IN  /\ check_list' = res.list
           /\ calls' = Append(calls,
                  LoadCall("print_tags", plugins, res,
                       IF res.exit THEN {} ELSE tags_of(res.list)))
           /\ mainpc' = IF res.exit THEN "exited" ELSE mainpc
    /\ UNCHANGED <<ioVars, report, WARNINGS, sel, threads, joined>>

NextPlugins ==
    \/ \E p \in PluginArgs, tg \in TagSel, nt \in NotTagSel :
          RunChecksPlugins(p, tg, nt)
    \/ \E p \in PluginArgs : PrintTags(p)
    \/ StartThread
    \/ Join
    \/ Return
    \/ \E t \in DOMAIN threads : BodyStep(t)
    \/ \E t \in DOMAIN threads : FailStep(t)
    \/ \E t \in DOMAIN threads : WarnStep(t)
    \/ \E t \in DOMAIN threads : FixStep(t)
    \/ \E t \in DOMAIN threads : TagStep(t)
    \/ \E t \in DOMAIN threads : SuccessStep(t)

SpecPlugins == InitPlugins /\ [][NextPlugins]_vars

\* The checks of the plugins
PluginChecks == UNION { Range(Plugs[p]) : p \in DOMAIN Plugs }

\* The threads of the current run that execute the check ck
ThreadsOf(ck) ==
    { t \in DOMAIN threads :
        threads[t].name = ck.name /\ threads[t].tags = ck.tags
           /\ threads[t].body = ck.body }

\* C33: calling run_checks (or print_tags) repeatedly in one process with the
\* same plugins list leaves the check registry unchanged after the first
\* call: the registry contains each plugin check once, and each run executes
\* each selected plugin check exactly once.
C33_PluginsLoadedOnce ==
    /\ \A i, j \in DOMAIN calls :
          (i < j /\ calls[i].plugins = calls[j].plugins
             /\ ~calls[i].exit /\ ~calls[j].exit)
          => calls[j].registry = calls[i].registry
    /\ \A ck \in PluginChecks : Count(ck, check_list) <= 1
    /\ (Returned /\ LastCall.op = "run_checks") =>
          \A ck \in PluginChecks :
              Cardinality(ThreadsOf(ck)) = (IF ck \in Range(Selected) THEN 1 ELSE 0)

\* The same statement for a process that passes plugins in one call only
C33_OneLoadingCall ==
    (\A i, j \in DOMAIN calls :
        (calls[i].plugins # <<>> /\ calls[j].plugins # <<>>) => i = j)
    => /\ \A ck \in PluginChecks : Count(ck, check_list) <= 1
       /\ (Returned /\ LastCall.op = "run_checks") =>
             \A ck \in PluginChecks :
                 Cardinality(ThreadsOf(ck))
                    = (IF ck \in Range(Selected) THEN 1 ELSE 0)

====
